---- MODULE Spec2Model ----
(***************************************************************************)
(* Model of the TennisBot custom actions (src/Chatbot/actions/actions.py). *)
(*                                                                         *)
(* Python values are modelled as follows.                                  *)
(*   str            a TLA+ string; characters are read with SubSeq         *)
(*   Optional[T]    a sequence of length <= 1: None is << >>, a value v is *)
(*                  << v >>                                                *)
(*   tuple / list   a sequence                                             *)
(*   dict           a function whose DOMAIN is the set of keys             *)
(***************************************************************************)
EXTENDS Integers, Sequences, FiniteSets, TLC

(***************************************************************************)
(* Python values                                                           *)
(***************************************************************************)
None == << >>

Some(v) == << v >>

IsNone(o) == Len(o) = 0

\* "x or ''" for an Optional[str]
OrEmpty(o) == IF IsNone(o) THEN "" ELSE o[1]

\* truthiness of an Optional[str]: None and "" are falsy
Truthy(o) == OrEmpty(o) # ""

\* "a or b" for two Optional[str]
PyOr(a, b) == IF Truthy(a) THEN a ELSE b

\* str(n or "") for an Optional[int]: None and 0 give ""
StrOfNum(o) == IF IsNone(o) THEN "" ELSE IF o[1] = 0 THEN "" ELSE ToString(o[1])

Range(s) == { s[i] : i \in DOMAIN s }

(***************************************************************************)
(* str methods                                                             *)
(***************************************************************************)
UpperLetters == "ABCDEFGHIJKLMNOPQRSTUVWXYZ"

LowerLetters == "abcdefghijklmnopqrstuvwxyz"

DigitChars == "0123456789"

\* the characters the model uses, in code point order
CodeOrder == " %'-./0123456789?ABCDEFGHIJKLMNOPQRSTUVWXYZ_abcdefghijklmnopqrstuvwxyz"

CharAt(s, i) == SubSeq(s, i, i)

\* position of the one-character string c in s (a string of distinct
\* characters), 0 when absent
IndexIn(c, s) ==
    IF \E i \in 1..Len(s) : CharAt(s, i) = c
    THEN CHOOSE i \in 1..Len(s) : CharAt(s, i) = c
    ELSE 0

IsUpperChar(c) == IndexIn(c, UpperLetters) > 0

IsLowerChar(c) == IndexIn(c, LowerLetters) > 0

IsDigitChar(c) == IndexIn(c, DigitChars) > 0

IsSpaceChar(c) == c = " "

LowerChar(c) == IF IsUpperChar(c) THEN CharAt(LowerLetters, IndexIn(c, UpperLetters)) ELSE c

UpperChar(c) == IF IsLowerChar(c) THEN CharAt(UpperLetters, IndexIn(c, LowerLetters)) ELSE c

RECURSIVE Lower(_)
\* str.lower()
Lower(s) == IF s = "" THEN "" ELSE LowerChar(Head(s)) \o Lower(Tail(s))

RECURSIVE Upper(_)
\* str.upper()
Upper(s) == IF s = "" THEN "" ELSE UpperChar(Head(s)) \o Upper(Tail(s))

RECURSIVE LStrip(_)
LStrip(s) == IF s # "" /\ IsSpaceChar(Head(s)) THEN LStrip(Tail(s)) ELSE s

RECURSIVE RStrip(_)
RStrip(s) ==
    IF s # "" /\ IsSpaceChar(CharAt(s, Len(s))) THEN RStrip(SubSeq(s, 1, Len(s) - 1)) ELSE s

\* str.strip()
Strip(s) == RStrip(LStrip(s))

\* s[:n]
Prefix(s, n) == SubSeq(s, 1, IF n < Len(s) THEN n ELSE Len(s))

\* s.startswith(p)
StartsWith(s, p) == Len(p) <= Len(s) /\ SubSeq(s, 1, Len(p)) = p

\* "sub in s"
Contains(s, sub) ==
    \E i \in 1..(Len(s) - Len(sub) + 1) : SubSeq(s, i, i + Len(sub) - 1) = sub

\* str.isdigit()
IsDigitStr(s) == s # "" /\ \A i \in 1..Len(s) : IsDigitChar(CharAt(s, i))

CharLess(a, b) == IndexIn(a, CodeOrder) < IndexIn(b, CodeOrder)

RECURSIVE StrLess(_, _)
\* a < b on str: lexicographic by code point
StrLess(a, b) ==
    IF b = "" THEN FALSE
    ELSE IF a = "" THEN TRUE
    ELSE IF Head(a) = Head(b) THEN StrLess(Tail(a), Tail(b))
    ELSE CharLess(Head(a), Head(b))

\* tuple(sorted((a, b)))
SortedPairUnsorted(a, b) == << a, b >>

SortedPair(a, b) == IF StrLess(b, a) THEN << b, a >> ELSE << a, b >>

(***************************************************************************)
(* The matches table (db_create.py) and its rows                           *)
(***************************************************************************)
\* the columns of table matches, in table order
MatchColumns ==
    << "match_id", "tourney_name", "surface", "draw_size", "tourney_level",
       "tourney_date", "match_num", "winner_id", "loser_id", "winner_seed",
       "loser_seed", "score", "best_of", "round", "minutes",
       "w_ace", "w_df", "w_svpt", "w_1stIn", "w_1stWon", "w_2ndWon", "w_SvGms",
       "w_bpSaved", "w_bpFaced",
       "l_ace", "l_df", "l_svpt", "l_1stIn", "l_1stWon", "l_2ndWon", "l_SvGms",
       "l_bpSaved", "l_bpFaced", "ongoing" >>

\* position (1-based) of a column in a column list, 0 when absent
ColumnIndex(cols, name) ==
    IF \E i \in DOMAIN cols : cols[i] = name
    THEN CHOOSE i \in DOMAIN cols : cols[i] = name
    ELSE 0

\* row[i] of a Python tuple (0-based offset i)
At(row, i) == row[i + 1]

\* dict(zip(columns, raw)), fetch_rows_as_dicts without the raw tuple
ZipDict(cols, raw) ==
    LET n == IF Len(cols) < Len(raw) THEN Len(cols) ELSE Len(raw)
    IN  [ c \in { cols[i] : i \in 1..n } |-> raw[ColumnIndex(cols, c)] ]

\* dict.get(key)
Get(d, key) == IF key \in DOMAIN d THEN d[key] ELSE None

(***************************************************************************)
(* make_match_signature                                                    *)
(***************************************************************************)
\* the signature tuple built from the seven extracted fields
SignatureOf(tourney_date, tourney_name, round_name, match_num, winner_id, loser_id, score) ==
    << OrEmpty(tourney_date),
       tourney_name,
       round_name,
       SortedPair(winner_id, loser_id),
       StrOfNum(match_num),
       score >>

\* the isinstance(row, dict) branch
SignatureFromDict(row) ==
    SignatureOf(Get(row, "tourney_date"),
                Lower(Strip(OrEmpty(Get(row, "tourney_name")))),
                Lower(Strip(OrEmpty(Get(row, "round")))),
                Get(row, "match_num"),
                OrEmpty(Get(row, "winner_id")),
                OrEmpty(Get(row, "loser_id")),
                Strip(OrEmpty(Get(row, "score"))))

SignatureFromTupleScoreOffByOne(row) ==
    SignatureOf(IF Len(row) > 5 THEN At(row, 5) ELSE None,
                IF Len(row) > 1 THEN Lower(Strip(OrEmpty(At(row, 1)))) ELSE "",
                IF Len(row) > 13 THEN Lower(Strip(OrEmpty(At(row, 13)))) ELSE "",
                IF Len(row) > 6 THEN At(row, 6) ELSE None,
                IF Len(row) > 7 THEN OrEmpty(At(row, 7)) ELSE "",
                IF Len(row) > 8 THEN OrEmpty(At(row, 8)) ELSE "",
                IF Len(row) > 10 THEN Strip(OrEmpty(At(row, 10))) ELSE "")

\* the positional branch: fixed offsets 5, 1, 13, 6, 7, 8, 11
SignatureFromTuple(row) ==
    SignatureOf(IF Len(row) > 5 THEN At(row, 5) ELSE None,
                IF Len(row) > 1 THEN Lower(Strip(OrEmpty(At(row, 1)))) ELSE "",
                IF Len(row) > 13 THEN Lower(Strip(OrEmpty(At(row, 13)))) ELSE "",
                IF Len(row) > 6 THEN At(row, 6) ELSE None,
                IF Len(row) > 7 THEN OrEmpty(At(row, 7)) ELSE "",
                IF Len(row) > 8 THEN OrEmpty(At(row, 8)) ELSE "",
                IF Len(row) > 11 THEN Strip(OrEmpty(At(row, 11))) ELSE "")

(***************************************************************************)
(* deduplicate_matches, fetch_unique_match_dicts, the head-to-head filter  *)
(***************************************************************************)
RECURSIVE DedupeDicts(_, _)
\* the loop of deduplicate_matches over the rest of the list, given the
\* signatures seen so far
DedupeDicts(rows, seen) ==
    IF rows = << >> THEN << >>
    ELSE LET key == SignatureFromDict(Head(rows))
         IN  IF key \in seen
             THEN DedupeDicts(Tail(rows), seen)
             ELSE << Head(rows) >> \o DedupeDicts(Tail(rows), seen \cup {key})

RECURSIVE KeepLastDicts(_)
KeepLastDicts(rows) ==
    IF rows = << >> THEN << >>
    ELSE IF \E j \in 2..Len(rows) : SignatureFromDict(rows[j]) = SignatureFromDict(Head(rows))
         THEN KeepLastDicts(Tail(rows))
         ELSE << Head(rows) >> \o KeepLastDicts(Tail(rows))

RECURSIVE DropAdjacentDicts(_)
DropAdjacentDicts(rows) ==
    IF Len(rows) < 2 THEN rows
    ELSE IF SignatureFromDict(rows[2]) = SignatureFromDict(rows[1])
         THEN DropAdjacentDicts(<< rows[1] >> \o Tail(Tail(rows)))
         ELSE << rows[1] >> \o DropAdjacentDicts(Tail(rows))

deduplicate_matches(rows) == DedupeDicts(rows, {})

RECURSIVE DedupeTuples(_, _)
\* the seen-signature loop over raw tuples (ActionHeadToHead.run, and
\* fetch_unique_match_dicts, which keys each row by its raw tuple)
DedupeTuples(rows, seen) ==
    IF rows = << >> THEN << >>
    ELSE LET key == SignatureFromTuple(Head(rows))
         IN  IF key \in seen
             THEN DedupeTuples(Tail(rows), seen)
             ELSE << Head(rows) >> \o DedupeTuples(Tail(rows), seen \cup {key})

(***************************************************************************)
(* Filter normalisation helpers                                            *)
(***************************************************************************)
\* SURFACE_KEYWORDS, in dict order
SURFACE_KEYWORDS ==
    << << "terra battuta", "Clay" >>, << "terra", "Clay" >>, << "clay", "Clay" >>,
       << "erba", "Grass" >>, << "grass", "Grass" >>,
       << "cemento", "Hard" >>, << "cement", "Hard" >>, << "hard", "Hard" >>,
       << "moquette", "Carpet" >>, << "carpet", "Carpet" >> >>

\* VALID_SURFACE_CODES
VALID_SURFACE_CODES == { "Hard", "Grass", "Clay", "Carpet" }

\* LAST_CONTEXT_SLOT
LAST_CONTEXT_SLOT == "last_context_action"

\* \w of the re module, on the characters of the model
IsWordChar(c) == IsUpperChar(c) \/ IsLowerChar(c) \/ IsDigitChar(c) \/ c = "_"

\* (19|20)\d{2} matches at position i of s; with word boundaries (\b on both
\* sides) when bounded
YearAt(s, i, bounded) ==
    /\ i + 3 <= Len(s)
    /\ SubSeq(s, i, i + 1) \in { "19", "20" }
    /\ IsDigitChar(CharAt(s, i + 2))
    /\ IsDigitChar(CharAt(s, i + 3))
    /\ bounded => /\ (i = 1 \/ ~IsWordChar(CharAt(s, i - 1)))
                  /\ (i + 3 = Len(s) \/ ~IsWordChar(CharAt(s, i + 4)))

\* re.search: the leftmost match, None when there is none
SearchYear(s, bounded) ==
    LET hits == { i \in 1..Len(s) : YearAt(s, i, bounded) }
    IN  IF hits = {} THEN None
        ELSE LET first == CHOOSE i \in hits : \A j \in hits : i <= j
             IN  Some(SubSeq(s, first, first + 3))

extract_year_from_text(text) == IF text = "" THEN None ELSE SearchYear(text, TRUE)

extract_surface_from_text(text) ==
    IF text = "" THEN None
    ELSE LET s    == Lower(text)
             hits == { k \in DOMAIN SURFACE_KEYWORDS : Contains(s, SURFACE_KEYWORDS[k][1]) }
         IN  IF hits = {} THEN None
             ELSE Some(SURFACE_KEYWORDS[CHOOSE k \in hits : \A j \in hits : k <= j][2])

normalize_surface_value(value) ==
    IF ~Truthy(value) THEN None
    ELSE LET s    == Lower(value[1])
             hits == { k \in DOMAIN SURFACE_KEYWORDS : SURFACE_KEYWORDS[k][1] = s }
         IN  IF hits # {} THEN Some(SURFACE_KEYWORDS[CHOOSE k \in hits : TRUE][2])
             ELSE extract_surface_from_text(value[1])

normalize_year_value(value) == IF ~Truthy(value) THEN None ELSE SearchYear(value[1], FALSE)

\* SURFACE_LABELS.get(surface, surface)
SurfaceLabel(surface) ==
    CASE surface = "Hard"   -> "cemento"
      [] surface = "Grass"  -> "erba"
      [] surface = "Clay"   -> "terra battuta"
      [] surface = "Carpet" -> "moquette"
      [] OTHER              -> surface

\* describe_filters: the readable list of the filters that are set
describe_filters(year, surface, tournament) ==
    (IF Truthy(year) THEN << "anno: " \o year[1] >> ELSE << >>)
    \o (IF Truthy(surface) THEN << "superficie: " \o SurfaceLabel(surface[1]) >> ELSE << >>)
    \o (IF Truthy(tournament) THEN << "torneo: " \o tournament[1] >> ELSE << >>)

(***************************************************************************)
(* Events an action returns                                                *)
(***************************************************************************)
SlotSet(name, value) == [ event |-> "slot", name |-> name, value |-> value ]

FollowupAction(name) == [ event |-> "followup", name |-> name ]

(***************************************************************************)
(* FilterContext and build_filter_context                                  *)
(***************************************************************************)
\* [e.get("value") for e in entities if e.get("entity") == name]
EntityValues(entities, name) ==
    LET picked == SelectSeq(entities, LAMBDA e : e.entity = name)
    IN  [ i \in DOMAIN picked |-> picked[i].value ]

\* tracker.latest_message or {}: the fields read from the message, with the
\* defaults of an absent message
MessageIntent(latest_message) == IF IsNone(latest_message) THEN "" ELSE latest_message[1].intent

MessageText(latest_message) == IF IsNone(latest_message) THEN "" ELSE latest_message[1].text

MessageEntities(latest_message) == IF IsNone(latest_message) THEN << >> ELSE latest_message[1].entities

\* the merge with the remembered value never consulted
MergeFilterForgets(intent_name, message_value, slot_value) ==
    [ value |-> message_value, explicit |-> ~IsNone(message_value) ]

\* the merge of one filter (year, surface or tournament): lines 361-374
MergeFilter(intent_name, message_value, slot_value) ==
    IF intent_name = "inform_filters"
    THEN [ value |-> PyOr(message_value, slot_value), explicit |-> ~IsNone(message_value) ]
    ELSE [ value |-> message_value, explicit |-> ~IsNone(message_value) ]

build_filter_context(tracker) ==
    LET context(intent_name, text, entities, message_year, message_surface, message_tournament,
                slot_year, slot_surface, slot_tournament) ==
            LET year       == MergeFilter(intent_name, message_year, slot_year)
                surface    == MergeFilter(intent_name, message_surface, slot_surface)
                tournament == MergeFilter(intent_name, message_tournament, slot_tournament)
            IN  [ intent_name         |-> intent_name,
                  text                |-> text,
                  entities            |-> entities,
                  year                |-> year.value,
                  surface             |-> surface.value,
                  tournament          |-> tournament.value,
                  message_year        |-> message_year,
                  message_surface     |-> message_surface,
                  message_tournament  |-> message_tournament,
                  slot_year           |-> slot_year,
                  slot_surface        |-> slot_surface,
                  slot_tournament     |-> slot_tournament,
                  explicit_year       |-> year.explicit,
                  explicit_surface    |-> surface.explicit,
                  explicit_tournament |-> tournament.explicit ]
        merge(intent_name, text, entities, year_entities, surface_entities, tournament_entities) ==
            context(intent_name, text, entities,
                    IF year_entities # << >> THEN normalize_year_value(year_entities[1])
                    ELSE extract_year_from_text(text),
                    IF surface_entities # << >> THEN normalize_surface_value(surface_entities[1])
                    ELSE extract_surface_from_text(text),
                    IF tournament_entities # << >> THEN tournament_entities[1] ELSE None,
                    tracker.slots["year"], tracker.slots["surface"], tracker.slots["tournament_name"])
        read(intent_name, text, entities) ==
            merge(intent_name, text, entities, EntityValues(entities, "year"),
                  EntityValues(entities, "surface"), EntityValues(entities, "tournament"))
        of(latest) == read(MessageIntent(latest), MessageText(latest), MessageEntities(latest))
    IN  of(tracker.latest_message)

\* FilterContext.is_inform
is_inform(ctx) == ctx.intent_name = "inform_filters"

\* FilterContext.describe
describe(ctx) == describe_filters(ctx.year, ctx.surface, ctx.tournament)

\* one filter's share of slot_events outside the inform branch, with the
\* clear_unset flag ignored
FreshSlotEventAlwaysClears(slot, explicit, value, clear_unset) ==
    IF explicit THEN << SlotSet(slot, value) >> ELSE << SlotSet(slot, None) >>

\* one filter's share of slot_events outside the inform branch
FreshSlotEvent(slot, explicit, value, clear_unset) ==
    IF explicit THEN << SlotSet(slot, value) >>
    ELSE IF clear_unset THEN << SlotSet(slot, None) >>
    ELSE << >>

\* FilterContext.slot_events
slot_events(ctx, clear_unset) ==
    IF is_inform(ctx)
    THEN (IF ctx.explicit_year THEN << SlotSet("year", ctx.message_year) >> ELSE << >>)
         \o (IF ctx.explicit_surface THEN << SlotSet("surface", ctx.message_surface) >> ELSE << >>)
         \o (IF ctx.explicit_tournament
             THEN << SlotSet("tournament_name", ctx.message_tournament) >> ELSE << >>)
    ELSE FreshSlotEvent("year", ctx.explicit_year, ctx.year, clear_unset)
         \o FreshSlotEvent("surface", ctx.explicit_surface, ctx.surface, clear_unset)
         \o FreshSlotEvent("tournament_name", ctx.explicit_tournament, ctx.tournament, clear_unset)

\* FilterContext.active_slot_events
active_slot_events(ctx) ==
    (IF Truthy(ctx.year) THEN << SlotSet("year", ctx.year) >> ELSE << >>)
    \o (IF Truthy(ctx.surface) THEN << SlotSet("surface", ctx.surface) >> ELSE << >>)
    \o (IF Truthy(ctx.tournament) THEN << SlotSet("tournament_name", ctx.tournament) >> ELSE << >>)

\* a full row of table matches; the columns the signature does not read are
\* left NULL except surface, best_of and ongoing
MatchRow(match_id, tourney_name, tourney_date, match_num, winner_id, loser_id, score, round_name) ==
    [ i \in 1..Len(MatchColumns) |->
        CASE MatchColumns[i] = "match_id"     -> Some(match_id)
          [] MatchColumns[i] = "tourney_name" -> tourney_name
          [] MatchColumns[i] = "surface"      -> Some("Clay")
          [] MatchColumns[i] = "tourney_date" -> tourney_date
          [] MatchColumns[i] = "match_num"    -> match_num
          [] MatchColumns[i] = "winner_id"    -> Some(winner_id)
          [] MatchColumns[i] = "loser_id"     -> Some(loser_id)
          [] MatchColumns[i] = "score"        -> score
          [] MatchColumns[i] = "best_of"      -> Some(3)
          [] MatchColumns[i] = "round"        -> round_name
          [] MatchColumns[i] = "ongoing"      -> Some(0)
          [] OTHER                            -> None ]

\* row with column name set to v
WithColumn(row, name, v) == [ row EXCEPT ![ColumnIndex(MatchColumns, name)] = v ]

(***************************************************************************)
(* Free-text helpers of the match-result action                            *)
(***************************************************************************)
\* the characters re keeps for [A-Za-z'-] and for [A-Za-z']
NameChars == UpperLetters \o LowerLetters \o "'-"

LetterChars == UpperLetters \o LowerLetters \o "'"

RECURSIVE Runs(_, _, _)
\* the maximal runs of characters of alphabet in s, in order: str.split() on
\* the text whose other characters became blanks, and re.findall of a class
Runs(s, alphabet, cur) ==
    IF s = "" THEN (IF cur = "" THEN << >> ELSE << cur >>)
    ELSE IF IndexIn(Head(s), alphabet) > 0 THEN Runs(Tail(s), alphabet, cur \o Head(s))
    ELSE (IF cur = "" THEN << >> ELSE << cur >>) \o Runs(Tail(s), alphabet, "")

RECURSIVE Join(_, _)
\* sep.join(tokens)
Join(tokens, sep) ==
    IF Len(tokens) = 0 THEN ""
    ELSE IF Len(tokens) = 1 THEN tokens[1]
    ELSE tokens[1] \o sep \o Join(Tail(tokens), sep)

RECURSIVE StripChars(_, _)
\* s.strip(chars)
StripChars(s, chars) ==
    IF s = "" THEN ""
    ELSE IF IndexIn(Head(s), chars) > 0 THEN StripChars(Tail(s), chars)
    ELSE IF IndexIn(CharAt(s, Len(s)), chars) > 0 THEN StripChars(SubSeq(s, 1, Len(s) - 1), chars)
    ELSE s

Reverse(seq) == [ i \in 1..Len(seq) |-> seq[Len(seq) + 1 - i] ]

_PREFIX_FILLERS ==
    { "il", "lo", "la", "l", "l'", "i", "gli", "le", "un", "una", "uno", "dei", "degli", "delle",
      "del", "dello", "della", "di", "d", "risultato", "risultati", "punteggio", "match",
      "partita", "partite", "ultimi", "ultime", "ultimo", "ultima" }

_SUFFIX_FILLERS == { "match", "partita", "partite", "vs", "contro" }

_BREAK_TOKENS ==
    { "a", "ad", "al", "allo", "alla", "agli", "alle", "ai", "nel", "nello", "nella", "nei",
      "nelle", "su", "sul", "sullo", "sulla", "sui", "sugli", "per", "tra", "fra", "contro",
      "vs", "vs.", "versus", "durante", "da", "dal", "dallo", "dalla", "dai", "dagli", "dalle" }

RECURSIVE TokenizeLoopEverywhere(_, _)
\* a loop that skips a filler at every position
TokenizeLoopEverywhere(tokens, result) ==
    IF Len(tokens) = 0 THEN result
    ELSE LET skipped(tok, lower) ==
                 \/ lower \in { "vs", "vs.", "versus", "contro" }
                 \/ IsDigitStr(tok)
                 \/ lower \in _PREFIX_FILLERS
         IN  TokenizeLoopEverywhere(Tail(tokens),
                                    IF skipped(Head(tokens), Lower(Head(tokens))) THEN result
                                    ELSE Append(result, Head(tokens)))

RECURSIVE TokenizeLoop(_, _)
\* the loop of _tokenize over the split tokens
TokenizeLoop(tokens, result) ==
    IF Len(tokens) = 0 THEN result
    ELSE LET skipped(tok, lower) ==
                 \/ lower \in { "vs", "vs.", "versus", "contro" }
                 \/ IsDigitStr(tok)
                 \/ Len(result) = 0 /\ lower \in _PREFIX_FILLERS
         IN  TokenizeLoop(Tail(tokens),
                          IF skipped(Head(tokens), Lower(Head(tokens))) THEN result
                          ELSE Append(result, Head(tokens)))

_tokenize(text) == TokenizeLoop(Runs(text, NameChars, ""), << >>)

RECURSIVE DropFillers(_, _)
\* the while loops of _clean_player_fragment: pop(0) while the first token is
\* in fillers
DropFillers(tokens, fillers) ==
    IF Len(tokens) > 0 /\ StripChars(Lower(tokens[1]), "'") \in fillers
    THEN DropFillers(Tail(tokens), fillers)
    ELSE tokens

\* a collection that does not stop at break tokens
CollectNameNoBreak(tokens) == SubSeq(tokens, 1, IF Len(tokens) < 3 THEN Len(tokens) ELSE 3)

\* the tokens collected before a break token, at most three; the first
\* token when none is collected
CollectName(tokens) ==
    LET cap == IF Len(tokens) < 3 THEN Len(tokens) ELSE 3
        stops(tok) == Lower(tok) \in _BREAK_TOKENS \/ IsDigitStr(tok)
        taken(k) == IF k = 0 THEN << tokens[1] >> ELSE SubSeq(tokens, 1, k)
    IN  taken(CHOOSE n \in 0..cap :
                  /\ \A j \in 1..n : ~stops(tokens[j])
                  /\ n < cap => stops(tokens[n + 1]))

_clean_player_fragment(fragment, from_end) ==
    LET name(trimmed) ==
            IF Len(trimmed) = 0 THEN ""
            ELSE IF from_end THEN Join(Reverse(CollectName(Reverse(trimmed))), " ")
            ELSE Join(CollectName(trimmed), " ")
        trim(headed) == name(Reverse(DropFillers(Reverse(headed), _SUFFIX_FILLERS)))
    IN  trim(DropFillers(_tokenize(fragment), _PREFIX_FILLERS))

RECURSIVE AddAliases(_, _)
\* add(alias) of _candidate_aliases over a list of candidates
AddAliases(candidates, aliases) ==
    IF Len(candidates) = 0 THEN aliases
    ELSE LET add(candidate) ==
                 IF Len(candidate) < 2 \/ \E i \in DOMAIN aliases : Lower(aliases[i]) = Lower(candidate)
                 THEN aliases ELSE Append(aliases, candidate)
         IN  AddAliases(Tail(candidates), add(Strip(Head(candidates))))

_candidate_aliases(raw) ==
    LET from(tokens, n) ==
            AddAliases(
                << Strip(raw), _clean_player_fragment(raw, TRUE), _clean_player_fragment(raw, FALSE) >>
                \o (IF n >= 2 THEN << Join(SubSeq(tokens, n - 1, n), " "), Join(SubSeq(tokens, 1, 2), " ") >>
                    ELSE << >>)
                \o (IF n >= 1 THEN << tokens[n], tokens[1] >> ELSE << >>),
                << >>)
        of(tokens) == from(tokens, Len(tokens))
    IN  of(_tokenize(raw))

\* (?:vs\.?|versus|contro)\s+ matched at position j of text (lower: the text in
\* lower case, for (?i)) and followed by at least one more character: the
\* position where group 2 starts, 0 if none
SeparatorEnd(text, lower, j) ==
    LET ends  == { j + Len(w) : w \in { w \in { "vs.", "vs", "versus", "contro" } :
                                          j + Len(w) - 1 <= Len(lower) /\ SubSeq(lower, j, j + Len(w) - 1) = w } }
        group(last) == IF last = Len(text) THEN last ELSE last + 1
        after(e) == group(CHOOSE x \in e..Len(text) :
                              /\ \A y \in e..x : IsSpaceChar(CharAt(text, y))
                              /\ (x = Len(text) \/ ~IsSpaceChar(CharAt(text, x + 1))))
        longest(good) == IF good = {} THEN 0 ELSE after(CHOOSE x \in good : \A y \in good : x >= y)
    IN  longest({ e \in ends : e <= Len(text) /\ IsSpaceChar(CharAt(text, e)) /\ e < Len(text) })

\* re.search(r"(?i)(.+?)\s+(?:vs\.?|versus|contro)\s+(.+)", text): the two
\* groups, or << >> when the text does not match
SearchVersus(text) ==
    LET split(lower, k, j) ==
            << SubSeq(text, 1, k - 1), SubSeq(text, SeparatorEnd(text, lower, j), Len(text)) >>
        from(lower, k) ==
            split(lower, k, CHOOSE x \in (k + 1)..Len(text) :
                                /\ \A y \in k..(x - 1) : IsSpaceChar(CharAt(text, y))
                                /\ ~IsSpaceChar(CharAt(text, x)))
        leftmost(lower, starts) ==
            IF starts = {} THEN << >> ELSE from(lower, CHOOSE x \in starts : \A y \in starts : x <= y)
        search(lower) ==
            leftmost(lower, { k \in 2..Len(text) :
                                /\ IsSpaceChar(CharAt(text, k))
                                /\ \E j \in (k + 1)..Len(text) :
                                      /\ \A y \in k..(j - 1) : IsSpaceChar(CharAt(text, y))
                                      /\ ~IsSpaceChar(CharAt(text, j))
                                      /\ SeparatorEnd(text, lower, j) > 0 })
    IN  search(Lower(text))

_extract_players_from_text(text) ==
    LET both(left, right) ==
            (IF left # "" THEN << left >> ELSE << >>)
            \o (IF right # "" /\ (left = "" \/ Lower(right) # Lower(left)) THEN << right >> ELSE << >>)
        cleaned(groups) ==
            IF text = "" \/ Len(groups) = 0 THEN << >>
            ELSE both(StripChars(_clean_player_fragment(groups[1], TRUE), " ,.-"),
                      StripChars(_clean_player_fragment(groups[2], FALSE), " ,.-"))
    IN  cleaned(SearchVersus(text))

(***************************************************************************)
(* The store (tables players and matches) and the queries on it            *)
(***************************************************************************)
\* column name of a raw row of SELECT * FROM matches
Col(row, name) == row[ColumnIndex(MatchColumns, name)]

RECURSIVE LikeLower(_, _)
\* s LIKE p on lower-cased strings: % is any run, _ any one character
LikeLower(s, p) ==
    IF p = "" THEN s = ""
    ELSE IF Head(p) = "%" THEN LikeLower(s, Tail(p)) \/ (s # "" /\ LikeLower(Tail(s), p))
    ELSE IF s = "" THEN FALSE
    ELSE (Head(p) = "_" \/ Head(p) = Head(s)) /\ LikeLower(Tail(s), Tail(p))

\* LOWER(value) LIKE LOWER(pattern) on a nullable column: NULL matches nothing
Like(value, pattern) == ~IsNone(value) /\ LikeLower(Lower(value[1]), Lower(pattern))

\* a < b on a nullable TEXT column as ORDER BY sees it: NULL sorts first
DateLess(a, b) ==
    IF IsNone(b) THEN FALSE ELSE IF IsNone(a) THEN TRUE ELSE StrLess(a[1], b[1])

\* WHERE winner_id = pid OR loser_id = pid
Played(row, pid) == Col(row, "winner_id") = Some(pid) \/ Col(row, "loser_id") = Some(pid)

\* the AND-clauses a match query adds for the filters that are set
FilterClauses(row, year_filter, surface_filter, tournament_filter) ==
    /\ Truthy(year_filter) => Like(Col(row, "tourney_date"), year_filter[1] \o "%")
    /\ Truthy(surface_filter) => Col(row, "surface") = surface_filter
    /\ Truthy(tournament_filter) => Like(Col(row, "tourney_name"), "%" \o tournament_filter[1] \o "%")

RECURSIVE OrderByDateDesc(_)
\* ORDER BY tourney_date DESC, match_id DESC
OrderByDateDesc(selected) ==
    IF Len(selected) = 0 THEN << >>
    ELSE LET before(a, b) ==
                 \/ DateLess(Col(b, "tourney_date"), Col(a, "tourney_date"))
                 \/ /\ Col(a, "tourney_date") = Col(b, "tourney_date")
                    /\ Col(a, "match_id")[1] > Col(b, "match_id")[1]
             from(first) ==
                 << selected[first] >>
                 \o OrderByDateDesc(SubSeq(selected, 1, first - 1) \o SubSeq(selected, first + 1, Len(selected)))
         IN  from(CHOOSE i \in DOMAIN selected :
                      \A j \in DOMAIN selected \ {i} : before(selected[i], selected[j]))

\* LIMIT n
Limit(selected, n) == SubSeq(selected, 1, IF Len(selected) < n THEN Len(selected) ELSE n)

\* (None, None) of validate_and_find_player
NotFound == [ id |-> None, name |-> None ]

\* MAX(m.tourney_date) of the LEFT JOIN for one player
LastMatch(pid, matches) ==
    LET latest(dates) ==
            IF dates \subseteq { None } THEN None
            ELSE CHOOSE d \in dates : \A e \in dates : ~DateLess(d, e)
    IN  latest({ Col(matches[i], "tourney_date") : i \in { i \in DOMAIN matches : Played(matches[i], pid) } })

\* the rows LIMIT 1 may return after ORDER BY (last_match IS NULL) ASC,
\* last_match DESC [, match_count DESC]: every row no other row precedes
FirstPlayers(candidates, matches, by_count) ==
    LET count(p) == Cardinality({ i \in DOMAIN matches : Played(matches[i], p.id) })
        precedes(a, la, b, lb) ==
            \/ DateLess(lb, la)
            \/ la = lb /\ by_count /\ count(a) > count(b)
        before(a, b) == precedes(a, LastMatch(a.id, matches), b, LastMatch(b.id, matches))
    IN  { a \in candidates : \A b \in candidates : ~before(b, a) }

\* not player_name or len(player_name.strip()) < 2, here without the length test
TooShortOnlyEmpty(player_name) == player_name = ""

\* not player_name or len(player_name.strip()) < 2
TooShort(player_name) == player_name = "" \/ Len(Strip(player_name)) < 2

\* validate_and_find_player with the tiers exchanged: the substring query
\* first, whatever the exact and the prefix query would find
PlayerLookupSubstringFirst(player_name, players, matches) ==
    LET inside(clean) == { p \in Range(players) : Like(Some(p.player_name), "%" \o clean \o "%") }
        found(ps) == { [ id |-> Some(p.id), name |-> Some(p.player_name), queries |-> 1 ] : p \in ps }
    IN  IF TooShort(player_name) THEN { [ id |-> None, name |-> None, queries |-> 0 ] }
        ELSE IF inside(Strip(player_name)) = {} THEN { [ id |-> None, name |-> None, queries |-> 3 ] }
        ELSE found(FirstPlayers(inside(Strip(player_name)), matches, TRUE))

\* validate_and_find_player: the (id, canonical name) pairs it may return
\* for the name, each with the number of queries (cursor.execute) issued
\* before the return
PlayerLookup(player_name, players, matches) ==
    LET all          == Range(players)
        found(ps, n) == { [ id |-> Some(p.id), name |-> Some(p.player_name), queries |-> n ] : p \in ps }
        none(n)      == { [ id |-> None, name |-> None, queries |-> n ] }
        third(inside) ==
            IF inside # {} THEN found(FirstPlayers(inside, matches, TRUE), 3) ELSE none(3)
        second(clean, prefix) ==
            IF prefix # {} THEN found(FirstPlayers(prefix, matches, FALSE), 2)
            ELSE third({ p \in all : Like(Some(p.player_name), "%" \o clean \o "%") })
        first(clean, exact) ==
            IF exact # {} THEN found(exact, 1)
            ELSE second(clean, { p \in all : Like(Some(p.player_name), clean \o "%") })
    IN  IF TooShort(player_name) THEN none(0)
        ELSE first(Strip(player_name), { p \in all : Lower(p.player_name) = Lower(Strip(player_name)) })

\* validate_and_find_player: the (id, canonical name) pairs the three queries
\* may return for the name
validate_and_find_player(player_name, players, matches) ==
    { [ id |-> r.id, name |-> r.name ] : r \in PlayerLookup(player_name, players, matches) }

\* GROUP BY tourney_name LIMIT 1 without the ORDER BY: any name the pattern
\* matches
AnyNameLike(pattern, matches) ==
    { Col(matches[i], "tourney_name") : i \in { i \in DOMAIN matches : Like(Col(matches[i], "tourney_name"), pattern) } }

\* the tourney_name values GROUP BY tourney_name ORDER BY COUNT(*) DESC
\* LIMIT 1 may return for the pattern
MostPlayedLike(pattern, matches) ==
    LET name(i)  == Col(matches[i], "tourney_name")
        count(n) == Cardinality({ i \in DOMAIN matches : name(i) = n })
        most(hits) == { n \in hits : \A o \in hits : count(o) <= count(n) }
    IN  most({ name(i) : i \in { i \in DOMAIN matches : Like(name(i), pattern) } })

\* find_best_tournament: the names it may return for the candidate
find_best_tournament(candidate, matches) ==
    LET name(i) == Col(matches[i], "tourney_name")
        date(i) == Col(matches[i], "tourney_date")
        third(words) == IF words # {} THEN words ELSE { None }
        second(clean, whole) ==
            IF whole # {} THEN whole
            ELSE third(MostPlayedLike("%" \o Join(Runs(clean, Tail(CodeOrder), ""), "%") \o "%", matches))
        first(clean, exact) ==
            IF exact # {}
            THEN { name(i) : i \in { i \in exact : \A j \in exact : ~DateLess(date(i), date(j)) } }
            ELSE second(clean, MostPlayedLike("%" \o clean \o "%", matches))
        lookup(clean) ==
            IF ~Truthy(candidate) \/ Len(clean) < 3 THEN { None }
            ELSE first(clean, { i \in DOMAIN matches : Lower(OrEmpty(name(i))) = Lower(clean) })
    IN  lookup(Strip(OrEmpty(candidate)))

\* guess_tournament_from_text: the names it may return
guess_tournament_from_text(text, exclude, matches) ==
    LET phrases(tokens, n) ==
            IF n > Len(tokens) THEN << >>
            ELSE [ i \in 1..(Len(tokens) - n + 1) |-> Join(SubSeq(tokens, i, i + n - 1), " ") ]
        chosen(candidates, hits) ==
            IF text = "" \/ hits = {} THEN { None }
            ELSE find_best_tournament(Some(candidates[CHOOSE k \in hits : \A j \in hits : k <= j]), matches)
        tried(candidates) ==
            chosen(candidates, { k \in DOMAIN candidates :
                                   find_best_tournament(Some(candidates[k]), matches) # { None } })
        from(tokens, exclude_set) ==
            tried(SelectSeq(phrases(tokens, 3) \o phrases(tokens, 2) \o phrases(tokens, 1),
                            LAMBDA phrase : Lower(phrase) \notin exclude_set))
    IN  from(SelectSeq(Runs(text, LetterChars, ""), LAMBDA t : Len(t) >= 3),
             { Lower(Strip(exclude[i])) : i \in { i \in DOMAIN exclude : exclude[i] # "" } })

RECURSIVE MatchingChars(_, _, _, _, _, _)
\* difflib.SequenceMatcher(None, a, b): the number of characters in the
\* matching blocks of a[alo..ahi-1] and b[blo..bhi-1]. The longest common
\* block is taken, the one starting earliest in a and then earliest in b,
\* and the parts to its left and to its right are matched in the same way.
MatchingChars(a, b, alo, ahi, blo, bhi) ==
    LET same(i, j, k) == \A d \in 0..(k - 1) : CharAt(a, i + d) = CharAt(b, j + d)
        around(x) ==
            x[3] + MatchingChars(a, b, alo, x[1], blo, x[2])
                 + MatchingChars(a, b, x[1] + x[3], ahi, x[2] + x[3], bhi)
        longest(blocks) ==
            IF blocks = {} THEN 0
            ELSE around(CHOOSE x \in blocks : \A y \in blocks :
                            \/ x[3] > y[3]
                            \/ x[3] = y[3] /\ x[1] < y[1]
                            \/ x[3] = y[3] /\ x[1] = y[1] /\ x[2] <= y[2])
    IN  IF alo >= ahi \/ blo >= bhi THEN 0
        ELSE longest({ x \in (alo..(ahi - 1)) \X (blo..(bhi - 1)) \X (1..(ahi - alo)) :
                         x[1] + x[3] <= ahi /\ x[2] + x[3] <= bhi /\ same(x[1], x[2], x[3]) })

\* SequenceMatcher(None, a, b).ratio() = 2.0 * matches / (len(a) + len(b)),
\* 1.0 for two empty strings, kept as the fraction m / t
ratio(a, b) ==
    IF Len(a) + Len(b) = 0 THEN [ m |-> 1, t |-> 1 ]
    ELSE [ m |-> 2 * MatchingChars(a, b, 1, Len(a) + 1, 1, Len(b) + 1), t |-> Len(a) + Len(b) ]

\* r >= num / den
RatioAtLeast(r, num, den) == r.m * den >= num * r.t

\* difflib.get_close_matches(word, possibilities, n, cutoff): the
\* possibilities x with SequenceMatcher(a = x, b = word).ratio() >= cutoff
\* (cutoff = num / 10), the n best by (ratio, x), best first
get_close_matches(word, possibilities, n, num) ==
    LET better(x, y) ==
            \/ ratio(x, word).m * ratio(y, word).t > ratio(y, word).m * ratio(x, word).t
            \/ /\ ratio(x, word).m * ratio(y, word).t = ratio(y, word).m * ratio(x, word).t
               /\ StrLess(y, x)
        rank(S, x) == Cardinality({ y \in S : better(y, x) }) + 1
        largest(S, k) == [ i \in 1..k |-> CHOOSE x \in S : rank(S, x) = i ]
        nlargest(S) == largest(S, IF Cardinality(S) < n THEN Cardinality(S) ELSE n)
    IN  nlargest({ x \in Range(possibilities) : RatioAtLeast(ratio(x, word), num, 10) })

\* a handler that lets the exception through
NotCaught(r) ==
    [ raised |-> r.error, names |-> r.names, steps |-> r.steps, collected |-> r.collected ]

\* except Exception: return []
CaughtAsEmpty(r) ==
    [ raised |-> FALSE, names |-> IF r.error THEN << >> ELSE r.names,
      steps |-> r.steps, collected |-> r.collected ]

\* find_similar_names(query, table, column, limit), names being the distinct
\* values of the column in the order the store yields them and fails the
\* store call that raises ("connect", "like", "select", or "" for none):
\* the names returned, the steps that ran, the names the last-token step
\* collected, and whether the connection was opened and whether
\* conn.close() was called: it is called after the first query when that
\* finds names (line 781) and after the second otherwise (786), so only
\* when neither query raised; the except branch (819) returns without it
find_similar_names(query, names, limit, fails) ==
    LET out(error, result, steps, collected) ==
            [ error |-> error, names |-> result, steps |-> steps, collected |-> collected ]
        last(name) ==
            LET parts(s) == IF s = "" THEN "" ELSE
                    Lower(SubSeq(s, (CHOOSE k \in 1..Len(s) :
                                        /\ \A j \in k..Len(s) : ~IsSpaceChar(CharAt(s, j))
                                        /\ (k = 1 \/ IsSpaceChar(CharAt(s, k - 1)))), Len(s)))
            IN  parts(Strip(name))
        original(all_names, m) ==
            all_names[CHOOSE i \in DOMAIN all_names :
                          /\ Lower(all_names[i]) = m
                          /\ \A j \in DOMAIN all_names : Lower(all_names[j]) = m => j <= i]
        whole(all_names, q, num) ==
            LET of(found) == [ i \in DOMAIN found |-> original(all_names, found[i]) ]
            IN  of(get_close_matches(q, [ i \in DOMAIN all_names |-> Lower(all_names[i]) ], limit, num))
        loose(all_names, q, steps, collected) ==
            out(FALSE, whole(all_names, q, 5), Append(steps, "whole_string"), collected)
        scored(all_names, q, steps) ==
            LET group(i) == CHOOSE j \in DOMAIN all_names :
                                /\ last(all_names[j]) = last(all_names[i])
                                /\ \A k \in 1..(j - 1) : last(all_names[k]) # last(all_names[i])
                before(i, j) ==
                    \/ ratio(q, last(all_names[i])).m * ratio(q, last(all_names[j])).t
                           > ratio(q, last(all_names[j])).m * ratio(q, last(all_names[i])).t
                    \/ /\ ratio(q, last(all_names[i])).m * ratio(q, last(all_names[j])).t
                              = ratio(q, last(all_names[j])).m * ratio(q, last(all_names[i])).t
                       /\ (group(i) < group(j) \/ (group(i) = group(j) /\ i < j))
                ordered(close) ==
                    [ k \in 1..Cardinality(close) |->
                        all_names[CHOOSE i \in close : Cardinality({ j \in close : before(j, i) }) + 1 = k] ]
                collect(suggestions) ==
                    IF Len(suggestions) >= limit
                    THEN out(FALSE, SubSeq(suggestions, 1, limit), Append(steps, "last_token"),
                             SubSeq(suggestions, 1, limit))
                    ELSE loose(all_names, q, Append(steps, "last_token"), suggestions)
            IN  collect(ordered({ i \in DOMAIN all_names :
                                    RatioAtLeast(ratio(q, last(all_names[i])), 5, 10) }))
        spaced(all_names, q, steps, matches) ==
            IF matches # << >> THEN out(FALSE, matches, Append(steps, "whole_phrase"), << >>)
            ELSE scored(all_names, q, Append(steps, "whole_phrase"))
        fuzzy(all_names, q, steps) ==
            IF Contains(q, " ") THEN spaced(all_names, q, steps, whole(all_names, q, 6))
            ELSE scored(all_names, q, steps)
        substring(results) ==
            IF results # << >> THEN out(FALSE, results, << "substring" >>, << >>)
            ELSE IF fails = "select" THEN out(TRUE, << >>, << "substring" >>, << >>)
            ELSE fuzzy(SelectSeq(names, LAMBDA n : n # ""), Lower(Strip(query)), << "substring" >>)
        connection(r) ==
            CaughtAsEmpty(r) @@ [ opened |-> fails # "connect", closed |-> ~r.error ]
    IN  connection(
            IF fails = "connect" \/ fails = "like" THEN out(TRUE, << >>, << >>, << >>)
            ELSE substring(Limit(SelectSeq(names, LAMBDA n : Like(Some(n), "%" \o query \o "%")), limit)))

\* table players
PlayerRow(id, player_name) == [ id |-> id, player_name |-> player_name ]

Players ==
    << PlayerRow("p1", "Jannik Sinner"), PlayerRow("p2", "Carlos Alcaraz"),
       PlayerRow("p3", "Novak Djokovic") >>

\* table matches: the Rome final is stored twice (match_id 1 and 2), the
\* first copy flagged ongoing; Djokovic has no match
StoredMatches ==
    << WithColumn(MatchRow(1, Some("Rome"), Some("20220509"), Some(1), "p1", "p2", Some("6-4 6-3"), Some("F")),
                  "ongoing", Some(1)),
       MatchRow(2, Some("Rome"), Some("20220509"), Some(1), "p1", "p2", Some("6-4 6-3"), Some("F")),
       WithColumn(MatchRow(3, Some("Wimbledon"), Some("20230703"), Some(2), "p2", "p1", Some("7-5 6-4"), Some("SF")),
                  "surface", Some("Grass")) >>

(***************************************************************************)
(* The custom actions: what one run utters, returns, queries and shows     *)
(***************************************************************************)
\* no FilterContext: the action builds none
NoContext == [ built |-> FALSE ]

\* dispatcher.utter_message(text=...): the sentence (kind), whom it is about
\* and the filter list it ends with
Text(kind, subject, filters) == [ kind |-> kind, subject |-> subject, filters |-> filters ]

\* dispatcher.utter_message(response=template)
Response(template) == Text(template, << >>, << >>)

\* year_filter, surface_filter and tournament_filter of a run
Filters(year, surface, tournament) == [ year |-> year, surface |-> surface, tournament |-> tournament ]

\* the filter values a query binds: a filter that is not truthy adds no clause
Bound(filters) ==
    [ f \in DOMAIN filters |-> IF Truthy(filters[f]) THEN filters[f] ELSE None ]

\* one run of an action: wanted are its filter variables as run() computes
\* them, query the filters bound in the match query (when one is issued),
\* shown the rows listed or counted in the answer
Outcome(kind, handler, messages, returned, ctx, wanted, issued, query, shown) ==
    [ kind |-> kind, handler |-> handler, messages |-> messages, events |-> returned, ctx |-> ctx,
      wanted |-> wanted, issued |-> issued, query |-> Bound(query), shown |-> shown ]

\* a run that ends before any match query
Early(kind, handler, messages, returned, ctx, wanted) ==
    Outcome(kind, handler, messages, returned, ctx, wanted, FALSE, Filters(None, None, None), << >>)

\* getattr(event, attr, None) on an element of tracker.events: the tracker
\* holds its events as dicts, which have no such attribute, so the default
\* is what getattr returns
GetAttr(event, attr) == None

action_ran_after_latest_user(tracker, action_name) ==
    LET evs   == tracker.events
        users == { i \in DOMAIN evs : GetAttr(evs[i], "event") = Some("user") }
        last  == CHOOSE i \in users : \A j \in users : j <= i
    IN  IF Len(evs) = 0 \/ users = {} THEN FALSE
        ELSE IF last = Len(evs) THEN FALSE
        ELSE \E i \in (last + 1)..Len(evs) :
                 GetAttr(evs[i], "event") = Some("action") /\ GetAttr(evs[i], "name") = Some(action_name)

\* the columns ActionPlayerStats selects (the columns the model leaves NULL
\* are not listed)
StatsColumns ==
    << "match_id", "tourney_name", "surface", "tourney_date", "winner_id", "loser_id", "score",
       "round", "minutes" >>

\* fetch_rows_as_dicts over a column list
Project(selected, columns) ==
    [ i \in DOMAIN selected |->
        ZipDict(columns, [ k \in DOMAIN columns |-> Col(selected[i], columns[k]) ]) ]

\* the zero-result branch forgetting every filter slot that was given,
\* applied or remembered (player-stats 1167-1173, head-to-head 1501-1507),
\* here with the filter slots left as they are
ZeroResultResetsNothing(ctx) == << SlotSet(LAST_CONTEXT_SLOT, None) >>

ZeroResultResets(ctx) ==
    (IF ctx.explicit_year \/ Truthy(ctx.year) \/ Truthy(ctx.slot_year)
     THEN << SlotSet("year", None) >> ELSE << >>)
    \o (IF ctx.explicit_surface \/ Truthy(ctx.surface) \/ Truthy(ctx.slot_surface)
        THEN << SlotSet("surface", None) >> ELSE << >>)
    \o (IF ctx.explicit_tournament \/ Truthy(ctx.tournament) \/ Truthy(ctx.slot_tournament)
        THEN << SlotSet("tournament_name", None) >> ELSE << >>)
    \o << SlotSet(LAST_CONTEXT_SLOT, None) >>

\* the serve columns of the player-stats query
ServeColumns ==
    << "w_ace", "w_df", "w_svpt", "w_1stIn", "w_1stWon", "w_2ndWon", "w_SvGms", "w_bpSaved", "w_bpFaced",
       "l_ace", "l_df", "l_svpt", "l_1stIn", "l_1stWon", "l_2ndWon", "l_SvGms", "l_bpSaved", "l_bpFaced" >>

\* safe_int(value): int(value), 0 for None
safe_int(value) == IF IsNone(value) THEN 0 ELSE value[1]

\* a guard that never returns early
NeverEmpty(total) == FALSE

\* if total == 0: the zero-result branch returns before any statistic
NoMatchRows(total) == total = 0

\* a per-year breakdown computed and shown under every filter
YearBreakdownAlways(year_filter) == TRUE

\* if not year_filter: the per-year tallies are kept, and shown, only when
\* no year filter is active
YearBreakdownWanted(year_filter) == ~Truthy(year_filter)

\* the statistics of ActionPlayerStats.run over the deduplicated match rows:
\* the counts, the percentages as fractions num / den (0 / 1 when the guard
\* of the expression yields 0.0) and every division the code performs, with
\* its denominator, in divisions; surface_stats and tournament_stats are the
\* tallies of the loop over the rows, years_shown the per-year lines of the
\* answer
PlayerStatistics(match_rows, player_id, year_filter) ==
    LET total == Len(match_rows)
        is_winner(row) == ~IsNone(Get(row, "winner_id")) /\ Get(row, "winner_id")[1] = player_id
        own(row, w, l) == safe_int(Get(row, IF is_winner(row) THEN w ELSE l))
        RECURSIVE sum(_, _, _)
        sum(rows, w, l) == IF Len(rows) = 0 THEN 0 ELSE own(Head(rows), w, l) + sum(Tail(rows), w, l)
        pct(num, den) == IF den # 0 THEN [ num |-> num * 100, den |-> den ] ELSE [ num |-> 0, den |-> 1 ]
        divided(what, den, guarded) ==
            IF guarded /\ den = 0 THEN << >> ELSE << [ what |-> what, den |-> den ] >>
        surface_code(row) ==
            IF Strip(OrEmpty(Get(row, "surface"))) = "" THEN "N/A" ELSE Strip(OrEmpty(Get(row, "surface")))
        tournament_name(row) ==
            IF OrEmpty(Get(row, "tourney_name")) = "" THEN "Sconosciuto" ELSE Strip(OrEmpty(Get(row, "tourney_name")))
        year(row) ==
            IF Len(OrEmpty(Get(row, "tourney_date"))) >= 4
               /\ IsDigitStr(SubSeq(OrEmpty(Get(row, "tourney_date")), 1, 4))
            THEN SubSeq(OrEmpty(Get(row, "tourney_date")), 1, 4) ELSE ""
        entries(kind, key(_), counted(_)) ==
            LET first == { i \in DOMAIN match_rows :
                             /\ counted(match_rows[i])
                             /\ \A j \in 1..(i - 1) : counted(match_rows[j]) => key(match_rows[j]) # key(match_rows[i]) }
                entry(i) ==
                    [ kind |-> kind, key |-> key(match_rows[i]), first |-> i,
                      matches |-> Cardinality({ j \in DOMAIN match_rows :
                                      counted(match_rows[j]) /\ key(match_rows[j]) = key(match_rows[i]) }),
                      wins |-> Cardinality({ j \in DOMAIN match_rows :
                                      /\ counted(match_rows[j]) /\ key(match_rows[j]) = key(match_rows[i])
                                      /\ is_winner(match_rows[j]) }) ]
            IN  { entry(i) : i \in first }
        top5(S, above(_, _)) == { e \in S : Cardinality({ o \in S : above(o, e) }) < 5 }
        by_wins(o, e) ==
            \/ o.wins > e.wins
            \/ o.wins = e.wins /\ o.matches > e.matches
            \/ o.wins = e.wins /\ o.matches = e.matches /\ o.first < e.first
        by_year(o, e) == StrLess(e.key, o.key)
        listed ==
            entries("surface", surface_code, LAMBDA row : TRUE)
            \cup top5(entries("tournament", tournament_name, LAMBDA row : TRUE), by_wins)
            \cup (IF YearBreakdownWanted(year_filter)
                  THEN top5(entries("year", year, LAMBDA row : year(row) # ""), by_year) ELSE {})
        RECURSIVE rates(_)
        rates(S) == IF S = {} THEN << >>
                    ELSE LET e == CHOOSE x \in S : TRUE
                         IN  divided(e.kind, e.matches, TRUE) \o rates(S \ { e })
        report(wins, svpt, first_in, first_won, second_won, bp_saved, bp_faced) ==
            [ early |-> FALSE, total |-> total, wins |-> wins, losses |-> total - wins,
              win_rate |-> pct(wins, total),
              first_in_pct |-> pct(first_in, svpt),
              first_won_pct |-> pct(first_won, first_in),
              second_won_pct |-> pct(second_won, svpt - first_in),
              bp_saved_pct |-> pct(bp_saved, bp_faced),
              rates |-> { [ kind |-> e.kind, key |-> e.key, rate |-> pct(e.wins, e.matches) ] : e \in listed },
              surface_stats |-> entries("surface", surface_code, LAMBDA row : TRUE),
              tournament_stats |-> entries("tournament", tournament_name, LAMBDA row : TRUE),
              years_shown |-> { e \in listed : e.kind = "year" },
              divisions |->
                  divided("win_rate", total, TRUE)
                  \o divided("first_in", svpt, TRUE) \o divided("first_won", first_in, TRUE)
                  \o divided("second_won", svpt - first_in, TRUE) \o divided("bp_saved", bp_faced, TRUE)
                  \o divided("aces_per_match", total, FALSE) \o divided("dfs_per_match", total, FALSE)
                  \o rates(listed) ]
    IN  IF NoMatchRows(total)
        THEN [ early |-> TRUE, total |-> 0, wins |-> 0, losses |-> 0, divisions |-> << >> ]
        ELSE report(Cardinality({ i \in DOMAIN match_rows : is_winner(match_rows[i]) }),
                    sum(match_rows, "w_svpt", "l_svpt"), sum(match_rows, "w_1stIn", "l_1stIn"),
                    sum(match_rows, "w_1stWon", "l_1stWon"), sum(match_rows, "w_2ndWon", "l_2ndWon"),
                    sum(match_rows, "w_bpSaved", "l_bpSaved"), sum(match_rows, "w_bpFaced", "l_bpFaced"))

\* ActionPlayerStats.run from the player lookup on
PlayerStatsFor(ctx, raw_name, found, matches) ==
    LET wanted    == Filters(ctx.year, ctx.surface, ctx.tournament)
        events_nf == slot_events(ctx, FALSE)
        answer(match_rows) ==
            IF Len(match_rows) = 0
            THEN Outcome("zero_result", "player_stats",
                         << Text("no_data", << found.name[1] >>, describe(ctx)) >>,
                         << SlotSet("player_name", found.name) >> \o ZeroResultResets(ctx)
                         \o << FollowupAction("action_listen") >>,
                         ctx, wanted, TRUE, wanted, match_rows)
            ELSE Outcome("answer", "player_stats",
                         << Text("stats", << found.name[1] >>, describe(ctx)) >>,
                         << SlotSet("player_name", found.name) >> \o slot_events(ctx, TRUE)
                         \o << SlotSet("player1", None), SlotSet("player2", None),
                               SlotSet(LAST_CONTEXT_SLOT, Some("action_player_stats")),
                               FollowupAction("action_listen") >>,
                         ctx, wanted, TRUE, wanted, match_rows)
        query(selected) == answer(deduplicate_matches(Project(OrderByDateDesc(selected), StatsColumns)))
    IN  IF ~Truthy(found.id)
        THEN Early("not_found", "player_stats", << Text("player_not_found", << raw_name >>, << >>) >>,
                   (IF Len(events_nf) = 0 /\ (Truthy(ctx.year) \/ Truthy(ctx.surface) \/ Truthy(ctx.tournament))
                    THEN active_slot_events(ctx) ELSE events_nf)
                   \o << FollowupAction("action_listen") >>,
                   ctx, wanted)
        ELSE query(SelectSeq(matches, LAMBDA row :
                       /\ Played(row, found.id[1])
                       /\ FilterClauses(row, ctx.year, ctx.surface, ctx.tournament)))

\* ActionPlayerStats.run: the outcomes the run may have
ActionPlayerStats_run(tracker, players_table, matches) ==
    LET run(ctx, players, raw_name, wanted) ==
            IF Len(players) = 0 /\ is_inform(ctx) /\ action_ran_after_latest_user(tracker, "action_player_stats")
            THEN { Early("skip", "player_stats", << >>, << FollowupAction("action_listen") >>, ctx, wanted) }
            ELSE IF ~Truthy(raw_name)
            THEN { Early("ask", "player_stats", << Response("utter_ask_player_name") >>,
                         active_slot_events(ctx) \o << FollowupAction("action_listen") >>, ctx, wanted) }
            ELSE { PlayerStatsFor(ctx, raw_name[1], found, matches) :
                     found \in validate_and_find_player(raw_name[1], players_table, matches) }
        named(ctx, players) ==
            run(ctx, players, IF Len(players) > 0 THEN players[1] ELSE tracker.slots["player_name"],
                Filters(ctx.year, ctx.surface, ctx.tournament))
        in(ctx) == named(ctx, EntityValues(ctx.entities, "player"))
    IN  in(build_filter_context(tracker))

\* extract_name_from_text(text): the name asked for in 'chi e <name>' /
\* 'who is <name>', trailing punctuation removed; "" when the text is not
\* such a question
extract_name_from_text(text) ==
    LET skip(s, k) == CHOOSE x \in k..(Len(s) + 1) :
                          /\ \A y \in k..(x - 1) : IsSpaceChar(CharAt(s, y))
                          /\ (x = Len(s) + 1 \/ ~IsSpaceChar(CharAt(s, x)))
        cut(n) == SubSeq(n, 1, CHOOSE L \in 0..Len(n) :
                                   /\ L = 0 \/ IndexIn(CharAt(n, L), "?!.,") = 0
                                   /\ \A j \in (L + 1)..Len(n) : IndexIn(CharAt(n, j), "?!.,") > 0)
        group(s, k) == IF k > Len(s) THEN "" ELSE Strip(cut(Strip(SubSeq(s, k, Len(s)))))
        spaced(s, k) == k <= Len(s) /\ IsSpaceChar(CharAt(s, k))
        at(lower, a, word) == a + Len(word) - 1 <= Len(lower) /\ SubSeq(lower, a, a + Len(word) - 1) = word
        chi(s, lower, a) ==
            IF at(lower, a, "e'") /\ spaced(s, a + 2) THEN skip(s, a + 2)
            ELSE IF at(lower, a, "e") /\ spaced(s, a + 1) THEN skip(s, a + 1)
            ELSE 0
        who(s, lower, a) ==
            IF a > 4 /\ at(lower, a, "is") /\ spaced(s, a + 2) THEN skip(s, a + 2) ELSE 0
        start(s, lower) ==
            IF StartsWith(lower, "chi") /\ chi(s, lower, skip(s, 4)) > 0 THEN chi(s, lower, skip(s, 4))
            ELSE IF StartsWith(lower, "who") /\ who(s, lower, skip(s, 4)) > 0 THEN who(s, lower, skip(s, 4))
            ELSE 0
        matched(s, k) == IF k = 0 THEN "" ELSE group(s, k)
        of(s) == matched(s, start(s, Lower(s)))
    IN  of(Strip(text))

\* ActionPlayerInfo.run: the outcomes the run may have. The message is read
\* with tracker.latest_message.get(...) (lines 931 and 933), which raises
\* AttributeError, outside any try, when latest_message is None
ActionPlayerInfo_run(tracker, players_table, matches) ==
    LET none == Filters(None, None, None)
        latest(pid) ==
            Project(Limit(OrderByDateDesc(SelectSeq(matches, LAMBDA row : Played(row, pid))), 1), MatchColumns)
        answer(raw_name, found) ==
            IF ~Truthy(found.id)
            THEN Early("not_found", "player_info", << Text("player_not_found", << raw_name >>, << >>) >>,
                       << >>, NoContext, none)
            ELSE Outcome("answer", "player_info", << Text("player_info", << found.name[1] >>, << >>) >>,
                         << SlotSet("player_name", found.name), SlotSet("player1", found.name),
                            SlotSet("player2", None), SlotSet("year", None), SlotSet("surface", None),
                            SlotSet("tournament_name", None) >>,
                         NoContext, none, TRUE, none, latest(found.id[1]))
        run(raw_name) ==
            IF ~Truthy(raw_name)
            THEN { Early("ask", "player_info", << Response("utter_ask_player_name") >>, << >>, NoContext, none) }
            ELSE { answer(raw_name[1], found) :
                     found \in validate_and_find_player(raw_name[1], players_table, matches) }
        named(players) ==
            run(PyOr(IF Len(players) > 0 THEN players[1]
                     ELSE Some(extract_name_from_text(MessageText(tracker.latest_message))),
                     tracker.slots["player_name"]))
    IN  IF IsNone(tracker.latest_message)
        THEN { Early("raised", "player_info", << >>, << >>, NoContext, none) }
        ELSE named(EntityValues(MessageEntities(tracker.latest_message), "player"))

\* a handler that returns the events of the answer with its failure message
ErrorEventsKept(run) == run.events

\* what the except branch of an action returns: the follow-up of the
\* player-stats and head-to-head actions, nothing in the other actions
ErrorEvents(run) ==
    IF run.handler \in { "player_stats", "head_to_head" } THEN << FollowupAction("action_listen") >> ELSE << >>

\* the run opens a connection: it does not return before the try block
Connects(run) ==
    ~(run.kind \in { "skip", "ask" } \/ (run.handler = "head_to_head" /\ run.kind = "rejected"))

\* finally: if conn: conn.close(), on the return and on the except path of
\* every action: the connection is closed when one was opened
ClosedInFinally(opened) == opened

\* the run of an action while the store fails at connect (get_db_connection
\* raises) or at query (the match query raises), given the run it is with a
\* working store: a failing call the run reaches raises before any message
\* is uttered, and except Exception utters the failure message and returns
\* (opened, closed: the connection of the run)
OnStoreError(run, fails) ==
    LET reached == \/ fails = "connect" /\ Connects(run)
                   \/ fails = "query" /\ run.issued
    IN  IF reached
        THEN [ failed |-> TRUE, raised |-> FALSE, attempts |-> 1,
               opened |-> fails # "connect", closed |-> ClosedInFinally(fails # "connect"),
               run |-> [ run EXCEPT !.kind = "store_error",
                                    !.messages = << Text("store_error", << >>, << >>) >>,
                                    !.events = ErrorEvents(run),
                                    !.issued = (fails = "query"),
                                    !.shown = << >> ] ]
        ELSE [ failed |-> FALSE, raised |-> FALSE, attempts |-> 0,
               opened |-> Connects(run), closed |-> ClosedInFinally(Connects(run)), run |-> run ]

\* p1_name and p2_name of ActionHeadToHead.run (lines 1392-1414): the two
\* names taken from the player entities and the slots, and whether one was
\* missing (line 1412)
HeadToHeadNames(tracker, players) ==
    LET context_player == tracker.slots["player_name"]
        slot1  == tracker.slots["player1"]
        slot2  == tracker.slots["player2"]
        same(a, b) == Lower(Strip(OrEmpty(a))) = Lower(Strip(OrEmpty(b)))
        names(named, second) ==
            << IF ~Truthy(named[1]) /\ Truthy(context_player) THEN context_player ELSE named[1], second,
               ~Truthy(named[1]) \/ ~Truthy(second) >>
        paired(named) ==
            names(named, IF Truthy(named[1]) /\ Truthy(named[2]) /\ same(named[1], named[2])
                         THEN None ELSE named[2])
        from(first) ==
            paired(IF Len(players) >= 2 THEN << players[1], players[2] >>
                   ELSE IF Len(players) = 0 THEN << first, slot2 >>
                   ELSE IF ~Truthy(first) THEN << players[1], slot2 >>
                   ELSE IF ~same(players[1], first) THEN << first, players[1] >>
                   ELSE IF ~Truthy(slot2) THEN << first, players[1] >>
                   ELSE << first, slot2 >>)
    IN  from(IF ~Truthy(slot1) /\ Truthy(context_player) THEN context_player ELSE slot1)

\* WHERE (winner_id = a AND loser_id = b) OR (winner_id = b AND loser_id = a)
PlayedEachOther(row, a, b) ==
    \/ Col(row, "winner_id") = Some(a) /\ Col(row, "loser_id") = Some(b)
    \/ Col(row, "winner_id") = Some(b) /\ Col(row, "loser_id") = Some(a)

\* ActionHeadToHead.run from the player lookups on
HeadToHeadFor(ctx, first, second, matches) ==
    LET wanted == Filters(ctx.year, ctx.surface, ctx.tournament)
        both   == << SlotSet("player1", first.name), SlotSet("player2", second.name) >>
        answer(match_rows) ==
            IF Len(match_rows) = 0
            THEN Outcome("zero_result", "head_to_head",
                         << Text("no_match", << first.name[1], second.name[1] >>, describe(ctx)) >>,
                         both \o ZeroResultResets(ctx) \o << FollowupAction("action_listen") >>,
                         ctx, wanted, TRUE, wanted, Project(match_rows, MatchColumns))
            ELSE Outcome("answer", "head_to_head",
                         << Text("head_to_head", << first.name[1], second.name[1] >>, describe(ctx)) >>,
                         both \o slot_events(ctx, TRUE)
                         \o << SlotSet(LAST_CONTEXT_SLOT, Some("action_head_to_head")),
                               FollowupAction("action_listen") >>,
                         ctx, wanted, TRUE, wanted, Project(match_rows, MatchColumns))
        query(selected) == answer(DedupeTuples(OrderByDateDesc(selected), {}))
    IN  IF ~Truthy(first.id) \/ ~Truthy(second.id)
        THEN Early("not_found", "head_to_head", << Text("players_not_found", << >>, << >>) >>,
                   << FollowupAction("action_listen") >>, ctx, wanted)
        ELSE query(SelectSeq(matches, LAMBDA row :
                       /\ PlayedEachOther(row, first.id[1], second.id[1])
                       /\ FilterClauses(row, ctx.year, ctx.surface, ctx.tournament)))

\* ActionHeadToHead.run: the outcomes the run may have
ActionHeadToHead_run(tracker, players_table, matches) ==
    LET run(ctx, p1_name, p2_name, missing, wanted) ==
            IF Truthy(p1_name) /\ ~Truthy(p2_name)
            THEN { Early("ask", "head_to_head", << Response("utter_ask_player2") >>,
                         << SlotSet("player1", p1_name), SlotSet("player2", None),
                            FollowupAction("action_listen") >>, ctx, wanted) }
            ELSE IF Truthy(p2_name) /\ ~Truthy(p1_name)
            THEN { Early("ask", "head_to_head", << Response("utter_ask_player1") >>,
                         << SlotSet("player2", p2_name), SlotSet("player1", None),
                            FollowupAction("action_listen") >>, ctx, wanted) }
            ELSE IF missing \/ Lower(Strip(p1_name[1])) = Lower(Strip(p2_name[1]))
            THEN { Early("rejected", "head_to_head", << Text("two_distinct_players", << >>, << >>) >>,
                         << FollowupAction("action_listen") >>, ctx, wanted) }
            ELSE { HeadToHeadFor(ctx, first, second, matches) :
                     first \in validate_and_find_player(p1_name[1], players_table, matches),
                     second \in validate_and_find_player(p2_name[1], players_table, matches) }
        named(ctx, names) ==
            run(ctx, names[1], names[2], names[3], Filters(ctx.year, ctx.surface, ctx.tournament))
        in(ctx) == named(ctx, HeadToHeadNames(tracker, EntityValues(ctx.entities, "player")))
    IN  in(build_filter_context(tracker))

\* ActionTournamentInfo.run: the outcomes the run may have
ActionTournamentInfo_run(tracker, matches) ==
    LET group(i)     == << Col(matches[i], "tourney_name"), Col(matches[i], "surface") >>
        count(g)     == Cardinality({ i \in DOMAIN matches : group(i) = g })
        recent(name) == Limit(OrderByDateDesc(SelectSeq(matches, LAMBDA row :
                            Like(Col(row, "tourney_name"), "%" \o name[1] \o "%"))), 5)
        answer(ctx, tournament_name, wanted, groups) ==
            IF groups = {}
            THEN { Early("not_found", "tournament_info",
                         << Text("tournament_not_found", << tournament_name[1] >>, << >>) >>, << >>, ctx, wanted) }
            ELSE { Outcome("answer", "tournament_info", << Text("tournament_info", << g[1][1] >>, << >>) >>,
                           << SlotSet("tournament_name", g[1]) >> \o slot_events(ctx, FALSE),
                           ctx, wanted, TRUE, Filters(None, None, g[1]), Project(recent(g[1]), MatchColumns)) :
                     g \in { g \in groups : \A o \in groups : count(o) <= count(g) } }
        run(ctx, tournament_name, wanted) ==
            IF ~Truthy(tournament_name)
            THEN { Early("ask", "tournament_info", << Response("utter_ask_tournament_name") >>, << >>, ctx, wanted) }
            ELSE answer(ctx, tournament_name, wanted,
                        { group(i) : i \in { i \in DOMAIN matches :
                            Like(Col(matches[i], "tourney_name"), "%" \o tournament_name[1] \o "%") } })
        named(ctx, tournament_name) == run(ctx, tournament_name, Filters(None, None, tournament_name))
        in(ctx) == named(ctx, PyOr(ctx.message_tournament, tracker.slots["tournament_name"]))
    IN  in(build_filter_context(tracker))

\* ActionOngoingTournaments.run: the rows shown are the first two of each
\* tournament, here in the order of the query
ActionOngoingTournaments_run(matches) ==
    LET resets == << SlotSet("player_name", None), SlotSet("player1", None), SlotSet("player2", None),
                     SlotSet("tournament_name", None), SlotSet("year", None), SlotSet("surface", None),
                     SlotSet(LAST_CONTEXT_SLOT, None), FollowupAction("action_listen") >>
        answer(selected, listed) ==
            { Outcome(IF Len(selected) = 0 THEN "zero_result" ELSE "answer", "ongoing",
                      << Text(IF Len(selected) = 0 THEN "nothing_ongoing" ELSE "ongoing", << >>, << >>) >>,
                      resets, NoContext, Filters(None, None, None), TRUE, Filters(None, None, None),
                      Project(listed, MatchColumns)) }
        first_two(selected, subset) ==
            answer(selected, SelectSeq(selected, LAMBDA row : \E i \in subset : selected[i] = row))
        query(selected) ==
            first_two(selected, { i \in DOMAIN selected :
                                    Cardinality({ j \in 1..(i - 1) :
                                        Col(selected[j], "tourney_name") = Col(selected[i], "tourney_name") }) < 2 })
    IN  query(Limit(OrderByDateDesc(SelectSeq(matches, LAMBDA row : Col(row, "ongoing") = Some(1))), 200))

\* ActionApplyFilters._get_last_relevant_action
_get_last_relevant_action(tracker) ==
    LET evs     == tracker.events
        ignored == { "action_listen", "action_apply_filters", "action_default_fallback",
                     "action_reset_slots", "action_session_start", "action_extract_slots" }
        hits    == { i \in DOMAIN evs :
                        /\ GetAttr(evs[i], "event") = Some("action")
                        /\ OrEmpty(GetAttr(evs[i], "name")) \notin ignored
                        /\ ~StartsWith(OrEmpty(GetAttr(evs[i], "name")), "utter_") }
    IN  IF hits = {} THEN None
        ELSE Some(OrEmpty(GetAttr(evs[CHOOSE i \in hits : \A j \in hits : j <= i], "name")))

\* ActionApplyFilters.run
ActionApplyFilters_run(tracker) ==
    LET run(ctx, wanted, last_action) ==
            IF OrEmpty(last_action) \notin { "action_player_stats", "action_head_to_head", "action_match_result" }
            THEN { Early("rejected", "apply_filters", << Text("cannot_filter_here", << >>, << >>) >>,
                         << FollowupAction("action_listen") >>, ctx, wanted) }
            ELSE { Early("routed", "apply_filters", << >>,
                         (IF Truthy(ctx.message_year) THEN << SlotSet("year", ctx.message_year) >> ELSE << >>)
                         \o (IF Truthy(ctx.message_surface)
                             THEN << SlotSet("surface", ctx.message_surface) >> ELSE << >>)
                         \o (IF Truthy(ctx.message_tournament)
                             THEN << SlotSet("tournament_name", ctx.message_tournament) >> ELSE << >>)
                         \o << SlotSet(LAST_CONTEXT_SLOT, last_action), FollowupAction(last_action[1]) >>,
                         ctx, wanted) }
        routed(ctx, found) ==
            run(ctx, Filters(ctx.message_year, ctx.message_surface, ctx.message_tournament),
                IF Truthy(found) THEN found ELSE tracker.slots[LAST_CONTEXT_SLOT])
        in(ctx) == routed(ctx, _get_last_relevant_action(tracker))
    IN  in(build_filter_context(tracker))

RECURSIVE AddPlayers(_, _, _)
\* add_player of ActionMatchResult.run over a list of values; capped: stop
\* as soon as two players are known (the loop over the names read in the text)
AddPlayers(values, players, capped) ==
    IF Len(values) = 0 THEN players
    ELSE LET next(added) ==
                 IF capped /\ Len(added) >= 2 THEN added ELSE AddPlayers(Tail(values), added, capped)
             add(candidate) ==
                 next(IF candidate = "" \/ \E i \in DOMAIN players : Lower(players[i]) = Lower(candidate)
                      THEN players ELSE Append(players, candidate))
         IN  add(Strip(OrEmpty(Head(values))))

RECURSIVE AliasScan(_, _, _, _)
\* the loop over _candidate_aliases: the aliases tried (seen) and the players
\* the first alias that resolves may stand for (hits, empty when none does)
AliasScan(aliases, seen, players_table, matches) ==
    IF Len(aliases) = 0 THEN [ seen |-> seen, hits |-> {} ]
    ELSE LET try(alias, found) ==
                 IF found = { NotFound }
                 THEN AliasScan(Tail(aliases), seen \cup { Lower(alias) }, players_table, matches)
                 ELSE [ seen |-> seen \cup { Lower(alias) },
                        hits |-> { [ id |-> f.id[1], name |-> IF Truthy(f.name) THEN f.name[1] ELSE alias ] :
                                   f \in found } ]
             scan(alias) ==
                 IF Lower(alias) \in seen THEN AliasScan(Tail(aliases), seen, players_table, matches)
                 ELSE try(alias, validate_and_find_player(alias, players_table, matches))
         IN  scan(Head(aliases))

RECURSIVE ResolvePlayers(_, _, _, _, _)
\* the two loops of _handle_pair over the candidates (with_tournament: an
\* unresolved candidate may name the tournament) and over the names read in
\* the text; st holds resolved_players, local_tournament and seen_aliases
ResolvePlayers(candidates, st, with_tournament, players_table, matches) ==
    IF Len(candidates) = 0 \/ Len(st.resolved) >= 2 THEN { st }
    ELSE LET resolve(scan, rest) ==
                 IF scan.hits # {}
                 THEN UNION { ResolvePlayers(rest, [ st EXCEPT !.resolved = Append(@, h), !.seen = scan.seen ],
                                             with_tournament, players_table, matches) : h \in scan.hits }
                 ELSE IF ~with_tournament \/ Truthy(st.tournament)
                 THEN ResolvePlayers(rest, [ st EXCEPT !.seen = scan.seen ], with_tournament, players_table, matches)
                 ELSE UNION { ResolvePlayers(rest,
                                  [ st EXCEPT !.seen = scan.seen, !.tournament = IF Truthy(t) THEN t ELSE @ ],
                                  with_tournament, players_table, matches) :
                              t \in find_best_tournament(Some(Head(candidates)), matches) }
         IN  resolve(AliasScan(_candidate_aliases(Head(candidates)), st.seen, players_table, matches),
                     Tail(candidates))

\* the events every handler of ActionMatchResult returns; any: whether
\* matches were found; tournament_first: the tournament slot is set before
\* the year slot (_handle_tournament, _handle_latest)
MatchResultEvents(player_name, player1, player2, filters, any, tournament_first) ==
    << SlotSet("player_name", player_name), SlotSet("player1", player1), SlotSet("player2", player2) >>
    \o (IF tournament_first THEN << SlotSet("tournament_name", Bound(filters).tournament) >> ELSE << >>)
    \o << SlotSet("year", Bound(filters).year), SlotSet("surface", Bound(filters).surface) >>
    \o (IF tournament_first THEN << >> ELSE << SlotSet("tournament_name", Bound(filters).tournament) >>)
    \o << SlotSet(LAST_CONTEXT_SLOT, IF any THEN Some("action_match_result") ELSE None),
          FollowupAction("action_listen") >>

\* _handle_pair once the players and the tournament are settled
PairFor(ctx, wanted, st, local_tournament, matches) ==
    LET filters      == Filters(wanted.year, wanted.surface, local_tournament)
        names        == << st.resolved[1].name, st.resolved[2].name >>
        filters_desc == describe_filters(filters.year, filters.surface, filters.tournament)
        answer(match_rows) ==
            Outcome(IF Len(match_rows) = 0 THEN "zero_result" ELSE "answer", "pair",
                    << Text(IF Len(match_rows) = 0 THEN "no_match" ELSE "match_details", names, filters_desc) >>,
                    MatchResultEvents(None, Some(names[1]), Some(names[2]), filters, Len(match_rows) > 0, FALSE),
                    ctx, wanted, TRUE, filters, Project(match_rows, MatchColumns))
            @@ [ ids |-> << st.resolved[1].id, st.resolved[2].id >> ]
        query(selected) == answer(DedupeTuples(Limit(OrderByDateDesc(selected), 10), {}))
    IN  query(SelectSeq(matches, LAMBDA row :
                  /\ PlayedEachOther(row, st.resolved[1].id, st.resolved[2].id)
                  /\ FilterClauses(row, filters.year, filters.surface, filters.tournament)))

_handle_pair(player_candidates, ctx, wanted, players_table, matches) ==
    LET start   == [ resolved |-> << >>, tournament |-> wanted.tournament, seen |-> {} ]
        named   == ResolvePlayers(player_candidates, start, TRUE, players_table, matches)
        guessed(st) ==
            IF Truthy(st.tournament) THEN { st.tournament }
            ELSE { PyOr(a, b) :
                     a \in find_best_tournament(ctx.message_tournament, matches),
                     b \in guess_tournament_from_text(ctx.text,
                               [ i \in DOMAIN st.resolved |-> st.resolved[i].name ], matches) }
        settled == UNION { { [ st |-> last, tournament |-> t ] :
                               last \in ResolvePlayers(_extract_players_from_text(ctx.text), st, FALSE,
                                                       players_table, matches),
                               t \in guessed(st) } : st \in named }
    IN  { IF Len(s.st.resolved) < 2
          THEN Early("rejected", "pair", << Text("need_two_players", << >>, << >>) >>, << >>, ctx, wanted)
          ELSE PairFor(ctx, wanted, s.st, s.tournament, matches) : s \in settled }

_handle_single(player_name, ctx, wanted, players_table, matches) ==
    LET answer(found, filters, shown) ==
            Outcome(IF Len(shown) = 0 THEN "zero_result" ELSE "answer", "single",
                    << Text(IF Len(shown) = 0 THEN "no_match" ELSE "last_matches", << found.name[1] >>,
                            describe_filters(filters.year, filters.surface, filters.tournament)) >>,
                    MatchResultEvents(found.name, found.name, None, filters, Len(shown) > 0, FALSE),
                    ctx, wanted, TRUE, filters, Project(shown, MatchColumns))
        query(found, filters) ==
            answer(found, filters,
                   Limit(OrderByDateDesc(SelectSeq(matches, LAMBDA row :
                             \/ Col(row, "winner_id") = found.id
                             \/ /\ Col(row, "loser_id") = found.id
                                /\ FilterClauses(row, filters.year, filters.surface, filters.tournament))), 5))
        for(found, tournament_filter) == query(found, Filters(wanted.year, wanted.surface, tournament_filter))
        tournaments(found) ==
            IF Truthy(wanted.tournament) THEN { wanted.tournament }
            ELSE { PyOr(a, b) : a \in find_best_tournament(ctx.message_tournament, matches),
                                b \in guess_tournament_from_text(ctx.text, << found.name[1] >>, matches) }
    IN  UNION { IF ~Truthy(found.id)
                THEN { Early("not_found", "single", << Text("player_not_found", << player_name >>, << >>) >>,
                             << >>, ctx, wanted) }
                ELSE { for(found, t) : t \in tournaments(found) } :
                found \in validate_and_find_player(player_name, players_table, matches) }

_handle_tournament(ctx, tournament_name, wanted, matches) ==
    LET strip(named) == [ i \in DOMAIN named |-> Strip(named[i][1]) ]
        lookups(exclude_players) ==
            UNION { IF Truthy(a) THEN { a } ELSE guess_tournament_from_text(ctx.text, exclude_players, matches) :
                    a \in find_best_tournament(Some(tournament_name), matches) }
        answer(canonical_tourney, filters, shown) ==
            Outcome(IF Len(shown) = 0 THEN "zero_result" ELSE "answer", "tournament",
                    << Text(IF Len(shown) = 0 THEN "no_match" ELSE "last_matches", << canonical_tourney[1] >>,
                            describe_filters(filters.year, filters.surface, canonical_tourney)) >>,
                    MatchResultEvents(None, None, None, filters, Len(shown) > 0, TRUE),
                    ctx, wanted, TRUE, filters, Project(shown, MatchColumns))
        query(canonical_tourney, filters) ==
            answer(canonical_tourney, filters,
                   Limit(OrderByDateDesc(SelectSeq(matches, LAMBDA row :
                             /\ Col(row, "tourney_name") = canonical_tourney
                             /\ FilterClauses(row, filters.year, filters.surface, None))), 5))
        for(canonical_tourney) == query(canonical_tourney, Filters(wanted.year, wanted.surface, canonical_tourney))
        canonical(firsts) ==
            IF firsts = {}
            THEN { Early("not_found", "tournament",
                         << Text("tournament_not_found", << tournament_name >>, << >>) >>, << >>, ctx, wanted) }
            ELSE { for(canonical_tourney) : canonical_tourney \in firsts }
        search(search_name) == canonical(MostPlayedLike("%" \o search_name \o "%", matches))
    IN  UNION { search(IF Truthy(lookup_name) THEN lookup_name[1] ELSE tournament_name) :
                lookup_name \in lookups(strip(SelectSeq(EntityValues(ctx.entities, "player"), Truthy))) }

_handle_latest(ctx, wanted, matches) ==
    LET filters == Filters(wanted.year, wanted.surface, None)
        answer(shown) ==
            { Outcome(IF Len(shown) = 0 THEN "zero_result" ELSE "answer", "latest",
                      << IF Len(shown) = 0 THEN Text("no_match", << >>, << >>)
                         ELSE Text("last_matches", << >>, describe_filters(filters.year, filters.surface, None)) >>,
                      MatchResultEvents(None, None, None, filters, Len(shown) > 0, TRUE),
                      ctx, wanted, TRUE, filters, Project(shown, MatchColumns)) }
    IN  answer(Limit(OrderByDateDesc(SelectSeq(matches, LAMBDA row :
                         FilterClauses(row, filters.year, filters.surface, None))), 5))

\* ActionMatchResult.run: the outcomes the run may have
ActionMatchResult_run(tracker, players_table, matches) ==
    LET plan(ctx, players, tournament_filter, wanted) ==
            [ ctx |-> ctx, players |-> players, tournament_filter |-> tournament_filter, wanted |-> wanted ]
        filtered(ctx, players, year_filter, surface_filter, tournament_filter) ==
            plan(ctx, players, tournament_filter, Filters(year_filter, surface_filter, tournament_filter))
        settle(ctx, players, surface_slot, remembered) ==
            filtered(ctx, players, PyOr(ctx.year, tracker.slots["year"]),
                     IF Truthy(surface_slot) /\ surface_slot[1] \notin VALID_SURFACE_CODES
                     THEN None ELSE surface_slot,
                     IF Truthy(remembered) /\ \E i \in DOMAIN players : Lower(players[i]) = Lower(remembered[1])
                     THEN None ELSE remembered)
        with_players(ctx, players) ==
            settle(ctx, players, PyOr(ctx.surface, tracker.slots["surface"]),
                   IF ~Truthy(ctx.message_tournament) /\ Len(players) < 2
                   THEN tracker.slots["tournament_name"] ELSE ctx.message_tournament)
        from_text(ctx, known, extra_players) ==
            with_players(ctx, IF Len(known) >= 2 THEN known
                              ELSE AddPlayers([ i \in DOMAIN extra_players |-> Some(extra_players[i]) ], known, TRUE))
        in(ctx) ==
            from_text(ctx,
                      AddPlayers(EntityValues(ctx.entities, "player")
                                 \o << tracker.slots["player1"], tracker.slots["player2"],
                                       tracker.slots["player_name"] >>, << >>, FALSE),
                      _extract_players_from_text(ctx.text))
        handle(p) ==
            IF Len(p.players) >= 2 THEN _handle_pair(p.players, p.ctx, p.wanted, players_table, matches)
            ELSE IF Len(p.players) = 1 THEN _handle_single(p.players[1], p.ctx, p.wanted, players_table, matches)
            ELSE IF Truthy(p.tournament_filter)
            THEN _handle_tournament(p.ctx, p.tournament_filter[1], p.wanted, matches)
            ELSE _handle_latest(p.ctx, p.wanted, matches)
    IN  handle(in(build_filter_context(tracker)))

(***************************************************************************)
(* State                                                                   *)
(***************************************************************************)
VARIABLES
    rows,            \* a query result: a list of raw match tuples
    unique_rows,     \* deduplicate_matches(rows as dicts)
    unique_again,    \* deduplicate_matches(unique_rows)
    probe,           \* one record signed through both branches of make_match_signature
    sigPhase,        \* "off", "input", "deduped", "again" or "signed"
    latest_message,  \* tracker.latest_message: None or a message
    slots,           \* the slot memory of the conversation (tracker.get_slot)
    ctx,             \* the FilterContext of the current turn
    slot_updates,    \* the events returned by FilterContext.slot_events
    clear_unset,     \* the clear_unset argument slot_events was called with
    ctxPhase,        \* "off", "message", "built" or "events"
    tracker_events,  \* tracker.events: the user and action events so far
    next_action,     \* the action the orchestrator runs next
    result,          \* what the last action uttered, returned, queried and showed
    turns,           \* user messages received
    call,            \* a helper function being called: its name and arguments
    reply            \* what the helper returned and the queries it issued

sigVars == << rows, unique_rows, unique_again, probe, sigPhase >>

ctxVars == << latest_message, slots, ctx, slot_updates, clear_unset, ctxPhase >>

botVars == << tracker_events, next_action, result, turns >>

libVars == << call, reply >>

vars == << sigVars, ctxVars, botVars, libVars >>

\* the slots of the domain
SlotNames ==
    { "player_name", "player1", "player2", "year", "surface", "tournament_name", LAST_CONTEXT_SLOT }

EmptySlots == [ name \in SlotNames |-> None ]

\* tracker: what an action reads of the conversation
Tracker == [ latest_message |-> latest_message, slots |-> slots, events |-> tracker_events ]

\* the state of the signature codec while another specification runs
SigIdle ==
    /\ rows = << >>
    /\ unique_rows = << >>
    /\ unique_again = << >>
    /\ probe = [ signed |-> FALSE ]
    /\ sigPhase = "off"

\* the state of the filter context builder while another specification runs
CtxIdle ==
    /\ latest_message = None
    /\ slots = EmptySlots
    /\ ctx = NoContext
    /\ slot_updates = << >>
    /\ clear_unset = FALSE
    /\ ctxPhase = "off"

NoResult == [ action |-> "" ]

\* the state of the conversation while another specification runs
BotIdle ==
    /\ tracker_events = << >>
    /\ next_action = "action_listen"
    /\ result = NoResult
    /\ turns = 0

NoCall == [ op |-> "" ]

NoReply == [ done |-> FALSE ]

\* no helper function is being called
LibIdle ==
    /\ call = NoCall
    /\ reply = NoReply

(***************************************************************************)
(* Bounds and input pools                                                  *)
(***************************************************************************)
\* longest query result fed to the deduplication
MaxRows == 3

\* the records a result list is drawn from (match_id is set by position)
RowPool ==
    { MatchRow(0, Some(n), Some("20220101"), Some(k), pair[1], pair[2], Some("6-4 "), Some("F")) :
        n \in {"Rome", " rome "}, k \in {0, 1}, pair \in { << "p1", "p2" >>, << "p2", "p1" >> } }

InputLists ==
    UNION { { [ i \in 1..n |-> WithColumn(t[i], "match_id", Some(i)) ] : t \in [1..n -> RowPool] } :
            n \in 0..MaxRows }

\* the columns make_match_signature reads
SignatureColumns ==
    { "tourney_date", "tourney_name", "round", "match_num", "winner_id", "loser_id", "score" }

\* row lengths around every offset the positional branch tests
TruncatedLengths == { 0, 1, 2, 5, 6, 7, 8, 9, 11, 12, 13, 14, 34 }

\* the same record with winner and loser exchanged
SwapParticipants(row) ==
    [ row EXCEPT ![ColumnIndex(MatchColumns, "winner_id")] = row[ColumnIndex(MatchColumns, "loser_id")],
                 ![ColumnIndex(MatchColumns, "loser_id")] = row[ColumnIndex(MatchColumns, "winner_id")] ]

\* fetch_rows_as_dicts over SELECT * FROM matches
AsDicts(raws) == [ i \in DOMAIN raws |-> ZipDict(MatchColumns, raws[i]) ]

NoProbe == [ signed |-> FALSE ]

(***************************************************************************)
(* Specification of the signature codec and the deduplicator               *)
(***************************************************************************)
SigInit ==
    /\ rows \in InputLists
    /\ unique_rows = << >>
    /\ unique_again = << >>
    /\ probe = NoProbe
    /\ sigPhase = "input"
    /\ CtxIdle
    /\ BotIdle
    /\ LibIdle

\* deduplicate_matches(rows)
SigDeduplicate ==
    /\ sigPhase = "input"
    /\ unique_rows' = deduplicate_matches(AsDicts(rows))
    /\ sigPhase' = "deduped"
    /\ UNCHANGED << libVars, rows, unique_again, probe, ctxVars, botVars >>

\* deduplicate_matches applied to its own output
SigDeduplicateAgain ==
    /\ sigPhase = "deduped"
    /\ unique_again' = deduplicate_matches(unique_rows)
    /\ sigPhase' = "again"
    /\ UNCHANGED << libVars, rows, unique_rows, probe, ctxVars, botVars >>

\* make_match_signature on one record, given as a dict and as a raw tuple,
\* with one column NULL (or none, when nulled is not a column) and the row
\* cut to n columns
SigSign(nulled, n) ==
    /\ sigPhase = "input"
    /\ Len(rows) = 1
    /\ LET full == IF nulled \in SignatureColumns THEN WithColumn(rows[1], nulled, None) ELSE rows[1]
           raw  == SubSeq(full, 1, n)
       IN  probe' = [ signed      |-> TRUE,
                      raw         |-> raw,
                      as_dict     |-> SignatureFromDict(ZipDict(MatchColumns, raw)),
                      as_tuple    |-> SignatureFromTuple(raw),
                      dict_swap   |-> SignatureFromDict(ZipDict(MatchColumns, SwapParticipants(full))),
                      dict_full   |-> SignatureFromDict(ZipDict(MatchColumns, full)),
                      tuple_swap  |-> SignatureFromTuple(SwapParticipants(full)),
                      tuple_full  |-> SignatureFromTuple(full),
                      full        |-> full ]
    /\ sigPhase' = "signed"
    /\ UNCHANGED << libVars, rows, unique_rows, unique_again, ctxVars, botVars >>

SigNext ==
    \/ SigDeduplicate
    \/ SigDeduplicateAgain
    \/ \E nulled \in SignatureColumns \cup {"none"}, n \in TruncatedLengths : SigSign(nulled, n)

SpecSignature == SigInit /\ [][SigNext]_vars

(***************************************************************************)
(* Specification of the filter context builder                             *)
(***************************************************************************)
Entity(name, value) == [ entity |-> name, value |-> value ]

Message(intent, text, entities) == Some([ intent |-> intent, text |-> text, entities |-> entities ])

\* the year, surface and tournament annotations a message may carry: none,
\* a value, a value that does not normalise, an empty or a null value
YearEntities == { << >>, << Entity("year", Some("2021")) >>, << Entity("year", Some("anno")) >> }

SurfaceEntities == { << >>, << Entity("surface", Some("Erba")) >>, << Entity("surface", Some("")) >> }

TournamentEntities ==
    { << >>, << Entity("tournament", Some("Wimbledon")) >>, << Entity("tournament", Some("")) >>,
      << Entity("tournament", None) >> }

ContextTexts == { "", "su terra nel 2022", "x12022 Hardcourt" }

ContextMessages ==
    { Message(i, t, y \o sf \o tn) :
        i \in { "inform_filters", "player_stats" }, t \in ContextTexts,
        y \in YearEntities, sf \in SurfaceEntities, tn \in TournamentEntities }
    \cup { None }

\* slot memories left by earlier turns
ContextSlots ==
    { [ EmptySlots EXCEPT !["year"] = y, !["surface"] = sf, !["tournament_name"] = tn ] :
        y \in { None, Some("2020") }, sf \in { None, Some("Hard") }, tn \in { None, Some("Roma") } }

CtxInit ==
    /\ SigIdle
    /\ BotIdle
    /\ LibIdle
    /\ latest_message \in ContextMessages
    /\ slots \in ContextSlots
    /\ ctx = NoContext
    /\ slot_updates = << >>
    /\ clear_unset = FALSE
    /\ ctxPhase = "message"

\* ctx = build_filter_context(tracker)
CtxBuild ==
    /\ ctxPhase = "message"
    /\ ctx' = [ built |-> TRUE, value |-> build_filter_context(Tracker) ]
    /\ ctxPhase' = "built"
    /\ UNCHANGED << libVars, sigVars, botVars, latest_message, slots, slot_updates, clear_unset >>

\* ctx.slot_events(clear_unset=flag)
CtxSlotEvents(flag) ==
    /\ ctxPhase = "built"
    /\ slot_updates' = slot_events(ctx.value, flag)
    /\ clear_unset' = flag
    /\ ctxPhase' = "events"
    /\ UNCHANGED << libVars, sigVars, botVars, latest_message, slots, ctx >>

CtxNext ==
    \/ CtxBuild
    \/ \E flag \in BOOLEAN : CtxSlotEvents(flag)

SpecContext == CtxInit /\ [][CtxNext]_vars

(***************************************************************************)
(* Specification of the conversation: user turns and action runs           *)
(***************************************************************************)
\* user messages a turn may bring
MaxTurns == 2

PlayerEntity(name) == Entity("player", Some(name))

\* what the user may say: every intent, with and without filters, naming
\* known players, a player without matches and years without matches
UserMessages ==
    { Message("player_stats", "statistiche di Sinner", << PlayerEntity("Sinner") >>),
      Message("player_stats", "Sinner su terra nel 2022",
              << PlayerEntity("Sinner"), Entity("year", Some("2022")), Entity("surface", Some("terra")) >>),
      Message("player_stats", "Sinner nel 1990", << PlayerEntity("Sinner"), Entity("year", Some("1990")) >>),
      Message("player_stats", "statistiche di Djokovic", << PlayerEntity("Djokovic") >>),
      Message("player_stats", "Sinner al torneo", << PlayerEntity("Sinner"), Entity("tournament", Some("")) >>),
      Message("head_to_head", "Sinner contro Alcaraz", << PlayerEntity("Sinner"), PlayerEntity("Alcaraz") >>),
      Message("head_to_head", "Sinner contro Alcaraz sul cemento",
              << PlayerEntity("Sinner"), PlayerEntity("Alcaraz"), Entity("surface", Some("cemento")) >>),
      Message("match_result", "Sinner vs Alcaraz", << >>),
      Message("match_result", "Sinner vs Alcaraz nel 1990", << Entity("year", Some("1990")) >>),
      Message("match_result", "risultato di Sinner", << PlayerEntity("Sinner") >>),
      Message("match_result", "risultati di Roma", << Entity("tournament", Some("rome")) >>),
      Message("match_result", "ultimi risultati", << >>),
      Message("inform_filters", "nel 1990", << Entity("year", Some("1990")) >>),
      Message("inform_filters", "su erba", << Entity("surface", Some("erba")) >>),
      Message("tournament_info", "info su Wimbledon", << Entity("tournament", Some("Wimbledon")) >>),
      Message("ongoing_tournaments", "tornei in corso", << >>) }

\* the action the orchestrator runs for an intent
IntentAction(intent) ==
    CASE intent = "player_stats"        -> "action_player_stats"
      [] intent = "head_to_head"        -> "action_head_to_head"
      [] intent = "match_result"        -> "action_match_result"
      [] intent = "tournament_info"     -> "action_tournament_info"
      [] intent = "ongoing_tournaments" -> "action_ongoing_tournaments"
      [] intent = "inform_filters"      -> "action_apply_filters"

\* the slot memory after the SlotSet events of a run, applied in order
ApplySlotEvents(memory, returned) ==
    [ name \in DOMAIN memory |->
        LET sets == { i \in DOMAIN returned : returned[i].event = "slot" /\ returned[i].name = name }
        IN  IF sets = {} THEN memory[name]
            ELSE returned[CHOOSE i \in sets : \A j \in sets : j <= i].value ]

\* the action a run hands over to: its last FollowupAction, else listening
FollowedBy(returned) ==
    LET follow == { i \in DOMAIN returned : returned[i].event = "followup" }
    IN  IF follow = {} THEN "action_listen"
        ELSE returned[CHOOSE i \in follow : \A j \in follow : j <= i].name

Init ==
    /\ SigIdle
    /\ CtxIdle
    /\ BotIdle
    /\ LibIdle

\* the user sends a message and the orchestrator picks the action of its intent
UserTurn(message) ==
    /\ next_action = "action_listen"
    /\ turns < MaxTurns
    /\ latest_message' = message
    /\ tracker_events' = Append(tracker_events, [ event |-> "user" ])
    /\ next_action' = IntentAction(MessageIntent(message))
    /\ result' = NoResult
    /\ turns' = turns + 1
    /\ UNCHANGED << libVars, sigVars, slots, ctx, slot_updates, clear_unset, ctxPhase >>

\* the orchestrator runs the action: the slots take its SlotSet events, the
\* tracker logs the run, and its FollowupAction (if any) runs next
Run(name, outcomes) ==
    /\ next_action = name
    /\ \E outcome \in outcomes :
        /\ result' = [ action |-> name, run |-> outcome ]
        /\ slots' = ApplySlotEvents(slots, outcome.events)
        /\ next_action' = FollowedBy(outcome.events)
    /\ tracker_events' = Append(tracker_events, [ event |-> "action", name |-> name ])
    /\ UNCHANGED << libVars, sigVars, latest_message, ctx, slot_updates, clear_unset, ctxPhase, turns >>

ActionPlayerStats == Run("action_player_stats", ActionPlayerStats_run(Tracker, Players, StoredMatches))

ActionHeadToHead == Run("action_head_to_head", ActionHeadToHead_run(Tracker, Players, StoredMatches))

ActionMatchResult == Run("action_match_result", ActionMatchResult_run(Tracker, Players, StoredMatches))

ActionTournamentInfo == Run("action_tournament_info", ActionTournamentInfo_run(Tracker, StoredMatches))

ActionOngoingTournaments == Run("action_ongoing_tournaments", ActionOngoingTournaments_run(StoredMatches))

ActionApplyFilters == Run("action_apply_filters", ActionApplyFilters_run(Tracker))

Next ==
    \/ \E message \in UserMessages : UserTurn(message)
    \/ ActionPlayerStats
    \/ ActionHeadToHead
    \/ ActionMatchResult
    \/ ActionTournamentInfo
    \/ ActionOngoingTournaments
    \/ ActionApplyFilters

Spec == Init /\ [][Next]_vars

(***************************************************************************)
(* Claims on the signature codec and the deduplicator (SpecSignature)      *)
(***************************************************************************)
\* the input of SigDeduplicate, as deduplicate_matches receives it
InputDicts == AsDicts(rows)

\* the signatures of a list of dict rows, position by position
SignaturesOf(l) == [ i \in DOMAIN l |-> SignatureFromDict(l[i]) ]

\* position i is the first one carrying its signature in the list sigs
IsFirstOccurrence(sigs, i) == \A j \in 1..(i - 1) : sigs[j] # sigs[i]

RECURSIVE IsSubsequenceOf(_, _)
\* sub is l with some rows left out, the others in their order
IsSubsequenceOf(sub, l) ==
    IF sub = << >> THEN TRUE
    ELSE IF l = << >> THEN FALSE
    ELSE IF Head(sub) = Head(l) THEN IsSubsequenceOf(Tail(sub), Tail(l))
    ELSE IsSubsequenceOf(sub, Tail(l))

\* C1: signature symmetry. A record and the same record with winner id and
\* loser id exchanged (every other field equal) get the same signature, in
\* the dict branch and in the positional branch of make_match_signature.
C1_SignatureSymmetry ==
    probe.signed =>
        /\ probe.dict_swap = probe.dict_full
        /\ probe.tuple_swap = probe.tuple_full

\* C1 witness: a signed record whose winner id sorts after its loser id, so
\* that the exchange changes the order the ids are read in.
C1_Witness ==
    /\ probe.signed
    /\ probe.full[ColumnIndex(MatchColumns, "winner_id")] = Some("p2")
    /\ probe.full[ColumnIndex(MatchColumns, "loser_id")] = Some("p1")
    /\ probe.tuple_full[4] = << "p1", "p2" >>

\* C2: dedup idempotence. Deduplicating the output again changes nothing,
\* and the output holds, unchanged, exactly the rows of the input that are
\* the first of their signature.
C2_DedupIdempotentFirstKept ==
    /\ sigPhase = "again" => unique_again = unique_rows
    /\ sigPhase \in {"deduped", "again"} =>
          LET input == InputDicts
              sigs  == SignaturesOf(input)
          IN  /\ \A i \in DOMAIN input :
                    IsFirstOccurrence(sigs, i) => \E k \in DOMAIN unique_rows : unique_rows[k] = input[i]
              /\ \A k \in DOMAIN unique_rows :
                    \E i \in DOMAIN input : IsFirstOccurrence(sigs, i) /\ unique_rows[k] = input[i]

\* C2 witness: deduplicated twice, from an input whose first and third rows
\* share a signature but differ in their field values.
C2_Witness ==
    /\ sigPhase = "again"
    /\ Len(rows) >= 3
    /\ SignatureFromTuple(rows[1]) = SignatureFromTuple(rows[3])
    /\ SignatureFromTuple(rows[1]) # SignatureFromTuple(rows[2])
    /\ rows[1][ColumnIndex(MatchColumns, "tourney_name")] # rows[3][ColumnIndex(MatchColumns, "tourney_name")]
    /\ Len(unique_rows) = 2

\* C3: the output of deduplicate_matches is an order-preserving subsequence
\* of the input, no two of its rows have equal signatures, and every
\* signature of the input appears in it exactly once.
C3_DedupSubsequenceUnique ==
    sigPhase \in {"deduped", "again"} =>
        LET input == InputDicts
            sigs  == SignaturesOf(input)
            kept  == SignaturesOf(unique_rows)
        IN  /\ IsSubsequenceOf(unique_rows, input)
            /\ \A k1, k2 \in DOMAIN kept : k1 # k2 => kept[k1] # kept[k2]
            /\ \A i \in DOMAIN sigs : Cardinality({ k \in DOMAIN kept : kept[k] = sigs[i] }) = 1

\* C3 witness: a deduplicated input in which a duplicate is separated from
\* its first occurrence by a row with another signature.
C3_Witness ==
    /\ sigPhase = "deduped"
    /\ Len(rows) = 3
    /\ SignatureFromTuple(rows[1]) = SignatureFromTuple(rows[3])
    /\ SignatureFromTuple(rows[1]) # SignatureFromTuple(rows[2])
    /\ unique_rows = << InputDicts[1], InputDicts[2] >>

\* the signature component (1..6) a column feeds
ComponentOf(column) ==
    CASE column = "tourney_date" -> 1
      [] column = "tourney_name" -> 2
      [] column = "round"        -> 3
      [] column = "match_num"    -> 5
      [] column = "score"        -> 6
      [] OTHER                   -> 4

\* column is NULL in the probed record, or cut off from it
IsAbsent(raw, column) ==
    \/ Len(raw) < ColumnIndex(MatchColumns, column)
    \/ IsNone(raw[ColumnIndex(MatchColumns, column)])

\* C5: dual-path equivalence. A record given as a named-field dict and as a
\* positional row in table column order gets the same signature, also when
\* fields are NULL or missing; a NULL or missing field gives an empty-string
\* component (an empty participant id for winner and loser).
C5_DualPathEquivalence ==
    probe.signed =>
        /\ probe.as_dict = probe.as_tuple
        /\ \A column \in SignatureColumns \ {"winner_id", "loser_id"} :
              IsAbsent(probe.raw, column) => probe.as_tuple[ComponentOf(column)] = ""
        /\ \A column \in {"winner_id", "loser_id"} :
              IsAbsent(probe.raw, column) => "" \in Range(probe.as_tuple[4])

\* C5 witness: a record cut after the loser id (no score, no round) and with
\* a NULL tournament date, signed through both branches.
C5_Witness ==
    /\ probe.signed
    /\ Len(probe.raw) = 9
    /\ IsNone(probe.raw[ColumnIndex(MatchColumns, "tourney_date")])
    /\ probe.as_dict[6] = ""
    /\ probe.as_dict[2] = "rome"

(***************************************************************************)
(* Claims on the filter context builder (SpecContext)                      *)
(***************************************************************************)
\* the three filters of a context: slot name, message-derived value,
\* effective value, remembered value and explicit flag
FiltersOf(c) ==
    { [ slot |-> "year", message |-> c.message_year, effective |-> c.year,
        remembered |-> c.slot_year, explicit |-> c.explicit_year ],
      [ slot |-> "surface", message |-> c.message_surface, effective |-> c.surface,
        remembered |-> c.slot_surface, explicit |-> c.explicit_surface ],
      [ slot |-> "tournament_name", message |-> c.message_tournament, effective |-> c.tournament,
        remembered |-> c.slot_tournament, explicit |-> c.explicit_tournament ] }

\* C6: explicit-vs-remembered merge. For year, surface and tournament: under
\* inform_filters the effective value is the message-derived value if there
\* is one, else the remembered slot value; under any other intent it is the
\* message-derived value; the explicit flag is true exactly when there is a
\* message-derived value, so an explicit filter's effective value is its
\* message-derived value.
C6_ExplicitVsRememberedMerge ==
    ctxPhase \in { "built", "events" } =>
        \A f \in FiltersOf(ctx.value) :
            /\ is_inform(ctx.value) =>
                  f.effective = (IF ~IsNone(f.message) THEN f.message ELSE f.remembered)
            /\ ~is_inform(ctx.value) => f.effective = f.message
            /\ f.explicit <=> ~IsNone(f.message)
            /\ f.explicit => f.effective = f.message

\* the events of a list that set or clear the given slot
EventsFor(events, slot) == { i \in DOMAIN events : events[i].event = "slot" /\ events[i].name = slot }

\* C8: FilterContext.slot_events. Under inform_filters it returns one set
\* event (carrying the message-derived value) for each explicit filter and
\* nothing else, whatever clear_unset is; under any other intent it returns
\* one set event (carrying the effective value) for each explicit filter
\* and, exactly when clear_unset is true, one clearing event for each filter
\* that is not explicit.
C8_SlotEvents ==
    ctxPhase = "events" =>
        /\ \A i \in DOMAIN slot_updates : slot_updates[i].event = "slot"
        /\ \A f \in FiltersOf(ctx.value) :
              LET mine == EventsFor(slot_updates, f.slot)
              IN  IF f.explicit
                  THEN /\ Cardinality(mine) = 1
                       /\ \A i \in mine :
                             /\ ~IsNone(slot_updates[i].value)
                             /\ slot_updates[i].value =
                                   (IF is_inform(ctx.value) THEN f.message ELSE f.effective)
                  ELSE IF ~is_inform(ctx.value) /\ clear_unset
                  THEN /\ Cardinality(mine) = 1
                       /\ \A i \in mine : IsNone(slot_updates[i].value)
                  ELSE mine = {}

\* C8 witness: slot_events called with clear_unset on an inform_filters
\* context that restates the surface only, with a remembered year; and
\* called without clear_unset on another intent with a filter left unsaid.
C8_Witness ==
    /\ ctxPhase = "events"
    /\ clear_unset
    /\ is_inform(ctx.value)
    /\ ctx.value.explicit_surface
    /\ ~ctx.value.explicit_year
    /\ ctx.value.year = Some("2020")
    /\ slot_updates = << SlotSet("surface", Some("Grass")) >>

(***************************************************************************)
(* Claims on the conversation                                              *)
(***************************************************************************)
\* the run the last action made, if any action ran since the last message
HasRun == result.action # ""

FilterSlots == { "year", "surface", "tournament_name" }

\* a filter value as a query sees it: None when it is not truthy
Applied(o) == IF Truthy(o) THEN o ELSE None

\* C4: deduplication in every action. In any response of any action no two
\* of the rows shown or counted have equal signatures.
C4_NoEqualSignaturesShown ==
    HasRun =>
        \A i, j \in DOMAIN result.run.shown :
            SignatureFromDict(result.run.shown[i]) = SignatureFromDict(result.run.shown[j]) => i = j

\* C7: a fresh question never inherits old filters. When the intent is not
\* inform_filters, the year and surface bound in the match query of the
\* player-stats, head-to-head and match-result actions are the values read
\* from the current message, and the tournament the run filters by is the
\* one read from the current message (or none, where match-result drops
\* it); a value remembered in the slots is never applied.
C7_FreshQuestionNeverInherits ==
    ( /\ HasRun
      /\ result.action \in { "action_player_stats", "action_head_to_head", "action_match_result" }
      /\ result.run.issued
      /\ ~is_inform(result.run.ctx) ) =>
        LET c == result.run.ctx
        IN  /\ result.run.query.year = Applied(c.message_year)
            /\ result.run.query.surface = Applied(c.message_surface)
            /\ \/ Applied(result.run.wanted.tournament) = Applied(c.message_tournament)
               \/ /\ result.action = "action_match_result"
                  /\ ~Truthy(result.run.wanted.tournament)

\* player-stats or head-to-head found the player(s) and no match under the
\* filters
StatsZeroResult ==
    /\ HasRun
    /\ result.action \in { "action_player_stats", "action_head_to_head" }
    /\ result.run.kind = "zero_result"

C10_MatchResultZeroClearsFilters ==
    ( /\ HasRun
      /\ result.action = "action_match_result"
      /\ result.run.kind = "zero_result" ) =>
        \A s \in FilterSlots : ~Truthy(slots[s])

\* a follow-up message that states a surface and nothing else: no year, no
\* tournament and no player is read from it
OnlySurfaceStated(c) ==
    /\ is_inform(c)
    /\ Truthy(c.message_surface)
    /\ IsNone(c.message_year)
    /\ IsNone(c.message_tournament)
    /\ EntityValues(c.entities, "player") = << >>

\* the slots the SlotSet events of a run write
SlotsWritten(returned) == { returned[i].name : i \in { j \in DOMAIN returned : returned[j].event = "slot" } }

\* C21: follow-up filter turn. After a successful player-stats turn for
\* player P (the memory holds P and last_context_action =
\* action_player_stats), a message with the informing-filters intent that
\* states only a surface makes action_apply_filters set the surface slot
\* and no year or tournament slot and hand over to action_player_stats;
\* that run then queries for the remembered player P with the new surface
\* and with year and tournament exactly as remembered.
C21_FollowUpFilterTurn ==
    [][ /\ ( /\ next_action = "action_apply_filters"
             /\ slots[LAST_CONTEXT_SLOT] = Some("action_player_stats")
             /\ OnlySurfaceStated(build_filter_context(Tracker)) ) =>
                /\ result'.action = "action_apply_filters"
                /\ result'.run.messages = << >>
                /\ SlotsWritten(result'.run.events) = { "surface", LAST_CONTEXT_SLOT }
                /\ slots' = [ slots EXCEPT !["surface"] = build_filter_context(Tracker).message_surface ]
                /\ next_action' = "action_player_stats"
        /\ ( /\ next_action = "action_player_stats"
             /\ HasRun
             /\ result.action = "action_apply_filters"
             /\ OnlySurfaceStated(result.run.ctx) ) =>
                /\ result'.action = "action_player_stats"
                /\ result'.run.issued
                /\ result'.run.messages[1].subject = << slots["player_name"][1] >>
                /\ result'.run.wanted =
                      Filters(slots["year"], result.run.ctx.message_surface, slots["tournament_name"])
                /\ result'.run.query =
                      Bound(Filters(result.run.ctx.slot_year, result.run.ctx.message_surface,
                                    result.run.ctx.slot_tournament))
      ]_vars

\* C21 witness: the re-dispatched player-stats run has queried for the
\* remembered player with the surface of the follow-up and the year
\* remembered from the turn before.
C21_Witness ==
    /\ HasRun
    /\ result.action = "action_player_stats"
    /\ OnlySurfaceStated(result.run.ctx)
    /\ result.run.issued
    /\ result.run.query.surface = Some("Grass")
    /\ result.run.query.year = Some("2022")
    /\ result.run.ctx.slot_year = Some("2022")
    /\ result.run.messages[1].subject = << "Jannik Sinner" >>

\* the most recent action of the event history that is not a listen, router
\* or utter action, read from the events as the tracker holds them
HistoryTarget ==
    LET hits == { i \in DOMAIN tracker_events :
                    /\ tracker_events[i].event = "action"
                    /\ tracker_events[i].name \notin
                          { "action_listen", "action_apply_filters", "action_default_fallback",
                            "action_reset_slots", "action_session_start", "action_extract_slots" }
                    /\ ~StartsWith(tracker_events[i].name, "utter_") }
    IN  IF hits = {} THEN None ELSE Some(tracker_events[CHOOSE i \in hits : \A j \in hits : j <= i].name)

\* the actions a filter follow-up may be handed to
FilterableActions == { "action_player_stats", "action_head_to_head", "action_match_result" }

\* C24: action_apply_filters re-dispatches only to action_player_stats,
\* action_head_to_head or action_match_result. Its target is the most
\* recent action of the event history that is not a listen, router or
\* utter action, or the last_context_action slot when the history has
\* none. When the target is not one of the three the run utters one
\* refusal, returns no slot event and only the continue-listening signal;
\* when it is, the run hands over to the target, sets a filter slot only to
\* a value present in the current message and clears no slot.
C24_ApplyFiltersTarget ==
    [][ next_action = "action_apply_filters" =>
          LET target == IF HistoryTarget # None THEN HistoryTarget ELSE slots[LAST_CONTEXT_SLOT]
              c      == build_filter_context(Tracker)
              events == result'.run.events
          IN  /\ next_action' \in FilterableActions \cup { "action_listen" }
              /\ IF OrEmpty(target) \in FilterableActions
                 THEN /\ next_action' = target[1]
                      /\ result'.run.messages = << >>
                      /\ \A i \in DOMAIN events :
                            events[i].event = "slot" =>
                                /\ Truthy(events[i].value)
                                /\ events[i].name = "year" => events[i].value = c.message_year
                                /\ events[i].name = "surface" => events[i].value = c.message_surface
                                /\ events[i].name = "tournament_name" => events[i].value = c.message_tournament
                 ELSE /\ next_action' = "action_listen"
                      /\ result'.run.messages = << Text("cannot_filter_here", << >>, << >>) >>
                      /\ events = << FollowupAction("action_listen") >>
      ]_vars

\* C27: the pair handler of the match-result action only queries matches
\* between two distinct players. Whatever the message entities, the
\* remembered player slots and the free text are, the two player ids bound
\* in the match query are different.
C27_PairOfDistinctPlayers ==
    ( /\ HasRun
      /\ result.action = "action_match_result"
      /\ result.run.handler = "pair"
      /\ result.run.issued ) =>
        result.run.ids[1] # result.run.ids[2]

(***************************************************************************)
(* Specification of the name resolvers                                     *)
(***************************************************************************)
\* longest matches table a lookup is run on
MaxMatches == 3

\* players tables: an exact, a prefix and a substring candidate for
\* "sinner"; two substring candidates and a prefix candidate; two substring
\* candidates and a player they may have met; two rows with the same name
\* up to case; no row
ResolverTables ==
    { << PlayerRow("p1", "Sinner"), PlayerRow("p2", "Sinner Jr"), PlayerRow("p3", "Max Sinner") >>,
      << PlayerRow("p1", "Max Sinner"), PlayerRow("p2", "Leo Sinner"), PlayerRow("p3", "Sinnerman") >>,
      << PlayerRow("p1", "Max Sinner"), PlayerRow("p2", "Leo Sinner"), PlayerRow("p3", "Carlos Alcaraz") >>,
      << PlayerRow("p1", "Sinner"), PlayerRow("p2", "sinner"), PlayerRow("p3", "Sinner Jr") >>,
      << >> }

\* the matches a table is drawn from: an early and a late one, and one
\* without a date
ResolverMatchPool ==
    { MatchRow(0, Some("Rome"), Some("20200511"), Some(1), "p1", "p3", Some("6-4 6-3"), Some("F")),
      MatchRow(0, Some("Rome"), Some("20230508"), Some(1), "p2", "p3", Some("6-4 6-3"), Some("F")),
      MatchRow(0, Some("Rome"), None, Some(3), "p3", "p2", Some("6-1 6-1"), Some("QF")) }

ResolverMatches ==
    UNION { { [ i \in 1..n |-> WithColumn(t[i], "match_id", Some(i)) ] : t \in [1..n -> ResolverMatchPool] } :
            n \in 0..MaxMatches }

\* the names looked up: absent, empty, one character with blanks around,
\* and names that hit each tier or none
ResolverNames ==
    { None, Some(""), Some(" s "), Some("si"), Some("sinner"), Some(" Sinner "), Some("inner"),
      Some("zverev") }

\* the matches a tournament lookup is run on: names that contain one
\* another
TournamentMatchPool ==
    { MatchRow(0, Some("Rome Masters"), Some("20200511"), Some(1), "p1", "p2", Some("6-4 6-3"), Some("F")),
      MatchRow(0, Some("Rome Open"), Some("20230508"), Some(1), "p1", "p2", Some("6-4 6-3"), Some("F")),
      MatchRow(0, Some("Rome Masters Open"), Some("20210510"), Some(1), "p1", "p2", Some("6-4 6-3"), Some("F")) }

TournamentMatches ==
    UNION { { [ i \in 1..n |-> WithColumn(t[i], "match_id", Some(i)) ] : t \in [1..n -> TournamentMatchPool] } :
            n \in 0..MaxMatches }

\* the tournament names looked up: absent, empty, too short, and names that
\* hit the exact, the substring or the word-by-word query, or none
TournamentCandidates ==
    { None, Some(""), Some("ro"), Some(" ro "), Some("rome"), Some("Rome Open"), Some("masters"),
      Some("rome  open"), Some("open rome"), Some("paris") }

ResolverInit ==
    /\ SigIdle
    /\ CtxIdle
    /\ BotIdle
    /\ call \in { [ op |-> "validate_and_find_player", player_name |-> q, players |-> tbl, matches |-> ms ] :
                    q \in ResolverNames, tbl \in ResolverTables, ms \in ResolverMatches }
               \cup { [ op |-> "find_best_tournament", candidate |-> c, matches |-> ms ] :
                        c \in TournamentCandidates, ms \in TournamentMatches }
    /\ reply = NoReply

\* canonical = find_best_tournament(cursor, candidate)
FindTournament ==
    /\ call.op = "find_best_tournament"
    /\ ~reply.done
    /\ \E name \in find_best_tournament(call.candidate, call.matches) :
           reply' = [ done |-> TRUE, tournament |-> name ]
    /\ UNCHANGED << sigVars, ctxVars, botVars, call >>

\* player_id, canonical = validate_and_find_player(name, cursor); an absent
\* name and the empty name take the same branch of "not player_name"
Resolve ==
    /\ call.op = "validate_and_find_player"
    /\ ~reply.done
    /\ \E r \in PlayerLookup(OrEmpty(call.player_name), call.players, call.matches) :
           reply' = [ done |-> TRUE, id |-> r.id, name |-> r.name, queries |-> r.queries ]
    /\ UNCHANGED << sigVars, ctxVars, botVars, call >>

ResolverNext == Resolve \/ FindTournament

SpecResolver == ResolverInit /\ [][ResolverNext]_vars

Resolved == call.op = "validate_and_find_player" /\ reply.done

\* the trimmed name looked up
CleanName == Strip(OrEmpty(call.player_name))

\* the rows of the players table whose name is (exact), starts with (prefix)
\* or contains (inside) the name looked up
ExactRows == { p \in Range(call.players) : Lower(p.player_name) = Lower(CleanName) }

PrefixRows == { p \in Range(call.players) : Like(Some(p.player_name), CleanName \o "%") }

InsideRows == { p \in Range(call.players) : Like(Some(p.player_name), "%" \o CleanName \o "%") }

\* the matches of a player and the date of the latest one
MatchCount(pid) == Cardinality({ i \in DOMAIN call.matches : Played(call.matches[i], pid) })

\* the player row the lookup returned
ReturnedRows == { p \in Range(call.players) : reply.id = Some(p.id) /\ reply.name = Some(p.player_name) }

\* C11: a name whose trimmed length is below 2 (absent and empty included)
\* is rejected: (None, None) is returned and no query is issued.
C11_ShortNameRejected ==
    (Resolved /\ Len(CleanName) < 2) =>
        /\ reply.id = None
        /\ reply.name = None
        /\ reply.queries = 0

C11_Witness ==
    /\ Resolved
    /\ call.player_name = Some(" s ")
    /\ \E p \in Range(call.players) : Like(Some(p.player_name), "%s%")
    /\ reply.queries = 0

\* C12: the tiers are tried in the order exact, prefix, substring, each only
\* if the previous one found nothing; when a row's name equals the name
\* looked up (case apart) the result is such a row, whatever the matches of
\* the rows that match at a later tier.
C12_TierOrdering ==
    (Resolved /\ Len(CleanName) >= 2) =>
        /\ ExactRows # {} =>
               reply.queries = 1 /\ ReturnedRows # {} /\ ReturnedRows \subseteq ExactRows
        /\ (ExactRows = {} /\ PrefixRows # {}) =>
               reply.queries = 2 /\ ReturnedRows # {} /\ ReturnedRows \subseteq PrefixRows
        /\ (ExactRows = {} /\ PrefixRows = {} /\ InsideRows # {}) =>
               reply.queries = 3 /\ ReturnedRows # {} /\ ReturnedRows \subseteq InsideRows
        /\ InsideRows = {} =>
               reply.queries = 3 /\ reply.id = None /\ reply.name = None

\* an exact row without any match is returned although a prefix row has
\* matches
C12_Witness ==
    /\ Resolved
    /\ ReturnedRows # {}
    /\ ReturnedRows \subseteq ExactRows
    /\ \A p \in ReturnedRows : MatchCount(p.id) = 0
    /\ \E p \in PrefixRows \ ExactRows :
           MatchCount(p.id) >= 2 /\ LastMatch(p.id, call.matches) = Some("20230508")

\* the lookup reached the substring query and a name contains the name
\* looked up
SubstringTier ==
    /\ Resolved
    /\ Len(CleanName) >= 2
    /\ ExactRows = {}
    /\ PrefixRows = {}
    /\ InsideRows # {}

LastOf(p) == LastMatch(p.id, call.matches)

\* the trimmed tournament name looked up, the stored names that contain it
\* and the rows of a name
CleanCandidate == Strip(OrEmpty(call.candidate))

StoredNames == { Col(call.matches[i], "tourney_name") : i \in DOMAIN call.matches }

ContainingNames == { n \in StoredNames : Like(n, "%" \o CleanCandidate \o "%") }

RowCount(n) == Cardinality({ i \in DOMAIN call.matches : Col(call.matches[i], "tourney_name") = n })

\* find_best_tournament reached the substring query and a stored name
\* contains the name looked up
TournamentSubstringTier ==
    /\ call.op = "find_best_tournament"
    /\ reply.done
    /\ Len(CleanCandidate) >= 3
    /\ \A n \in StoredNames : Lower(OrEmpty(n)) # Lower(CleanCandidate)
    /\ ContainingNames # {}

\* the tournament half of C13
MostPlayedTournament ==
    TournamentSubstringTier =>
        /\ reply.tournament \in ContainingNames
        /\ \A o \in ContainingNames : RowCount(o) <= RowCount(reply.tournament)

SameTierRows == IF ExactRows # {} THEN ExactRows ELSE PrefixRows

\* C14: when several players match at the same tier (the same exact name, or
\* the same prefix) the one returned has the most recent match and, among
\* those, the most matches, and the table content and the name determine it:
\* the lookup has one possible result, whatever order the store reads the
\* rows in.
C14_DeterministicTieBreak ==
    (Resolved /\ Len(CleanName) >= 2 /\ SameTierRows # {}) =>
        /\ ReturnedRows # {}
        /\ \A r \in ReturnedRows : \A o \in SameTierRows :
               \/ DateLess(LastOf(o), LastOf(r))
               \/ LastOf(o) = LastOf(r) /\ MatchCount(o.id) <= MatchCount(r.id)
        /\ Cardinality(PlayerLookup(OrEmpty(call.player_name), call.players, call.matches)) = 1

\* ------------------------------------------------------------------------
\* Specification of the text helpers: find_similar_names, _tokenize and
\* _extract_players_from_text called on their own

MaxLimit == 3

MaxTokens == 3

\* the distinct names of a column, in the order the store yields them
SuggestionTables ==
    { << "Novak Djokovic", "Dominic Thiem" >>,
      << "Juan Martin del Potro", "Novak Djokovic" >>,
      << "Max Sinner", "Leo Sinner", "Jannik Sinner", "Carlos Alcaraz" >>,
      << "", "Rome Masters", "Rome Open", "Paris Masters", "Madrid Open" >>,
      << >> }

SuggestionQueries ==
    { "djokovic", "djokovich", "potrro", "sinnr", "masters", "mastrs", "max siner", "xyz", "" }

\* the words the texts given to _tokenize are made of: fillers, connectors,
\* a number, a break token and names
TokenWords == { "il", "di", "vs", "contro", "2024", "a", "Sinner" }

TokenTexts == { Join(s, " ") : s \in UNION { [ 1..k -> TokenWords ] : k \in 0..MaxTokens } }

LeftFragments ==
    { "Rinderknech", "il risultato di Jannik Sinner", "Sinner a Roma", "Sinner nel",
      "Jan Lennard Struff Junior", "2025" }

RightFragments ==
    { "Zverev a Shanghai 2025", "a Roma", "il Zverev", "Alexander Zverev Senior Junior", "zverev match",
      "Rinderknech" }

VersusTexts ==
    { l \o " " \o c \o " " \o r : l \in LeftFragments, c \in { "vs", "vs.", "contro" }, r \in RightFragments }
    \cup { "", "Sinner Zverev" }

TextInit ==
    /\ call \in { [ op |-> "find_similar_names", query |-> q, names |-> n, limit |-> l ] :
                    q \in SuggestionQueries, n \in SuggestionTables, l \in 1..MaxLimit }
            \cup { [ op |-> "_tokenize", text |-> x ] : x \in TokenTexts }
            \cup { [ op |-> "_extract_players_from_text", text |-> x ] : x \in VersusTexts }
    /\ reply = NoReply
    /\ SigIdle
    /\ CtxIdle
    /\ BotIdle

\* find_similar_names(query, table, column, limit) returns; the store call
\* that fails, if any, is the environment's choice
Suggest ==
    /\ call.op = "find_similar_names"
    /\ reply = NoReply
    /\ \E fails \in { "", "connect", "like", "select" } :
           LET returns(r) == [ done |-> TRUE, fails |-> fails, raised |-> r.raised, names |-> r.names,
                               steps |-> r.steps, collected |-> r.collected,
                               opened |-> r.opened, closed |-> r.closed ]
           IN  reply' = returns(find_similar_names(call.query, call.names, call.limit, fails))
    /\ UNCHANGED << call, sigVars, ctxVars, botVars >>

\* _tokenize(text) returns
Tokenize ==
    /\ call.op = "_tokenize"
    /\ reply = NoReply
    /\ reply' = [ done |-> TRUE, tokens |-> _tokenize(call.text) ]
    /\ UNCHANGED << call, sigVars, ctxVars, botVars >>

\* _extract_players_from_text(text) returns
ExtractPlayers ==
    /\ call.op = "_extract_players_from_text"
    /\ reply = NoReply
    /\ reply' = [ done |-> TRUE, names |-> _extract_players_from_text(call.text) ]
    /\ UNCHANGED << call, sigVars, ctxVars, botVars >>

TextNext == Suggest \/ Tokenize \/ ExtractPlayers

SpecText == TextInit /\ [][TextNext]_vars

Suggested == call.op = "find_similar_names" /\ reply # NoReply

\* the rows of the substring query: LOWER(column) LIKE LOWER('%query%') LIMIT limit
SubstringHits ==
    Limit(SelectSeq(call.names, LAMBDA n : Like(Some(n), "%" \o call.query \o "%")), call.limit)

\* C15: find_similar_names returns a non-empty substring result without
\* reaching a similarity step; with no substring hit, the names collected by
\* last-token similarity are what it returns, and the whole-string
\* similarity match runs only when that collection is empty.
C15_FallbackOrder ==
    (Suggested /\ reply.fails = "") =>
        /\ SubstringHits # << >> => reply.names = SubstringHits /\ reply.steps = << "substring" >>
        /\ reply.collected # << >> =>
               /\ reply.names = reply.collected
               /\ \A i \in DOMAIN reply.steps : reply.steps[i] # "whole_string"

\* the store call chosen to fail is one the call reaches
StoreFailed ==
    \/ reply.fails \in { "connect", "like" }
    \/ reply.fails = "select" /\ SubstringHits = << >>

\* C16: find_similar_names never raises; when the connection or a query it
\* issues fails it returns the empty list; it never returns more than limit
\* names.
C16_NeverRaisesAtMostLimit ==
    Suggested =>
        /\ ~reply.raised
        /\ StoreFailed => reply.names = << >>
        /\ Len(reply.names) <= call.limit

\* C16 witness: the second query fails on a table holding more names than
\* limit, and the call has returned the empty list
C16_Witness ==
    /\ Suggested
    /\ reply.fails = "select"
    /\ StoreFailed
    /\ Len(call.names) > call.limit
    /\ reply.names = << >>
    /\ ~reply.raised

\* C29: every database connection opened while handling a request is
\* closed by the time the operation returns, on every path including query
\* failure, in each action and in find_similar_names.
C29_ConnectionsClosed ==
    (call.op \in { "find_similar_names", "run" } /\ reply # NoReply) =>
        (reply.opened => reply.closed)

Tokenized == call.op = "_tokenize" /\ reply # NoReply

\* text.split(): the whitespace-separated words of the text given to _tokenize
TextWords == Runs(call.text, Tail(CodeOrder), "")

Connector(w) == Lower(w) \in { "vs", "versus", "contro" }

Filler(w) == Lower(w) \in _PREFIX_FILLERS

\* the words at the positions in keep, in their order
Subsequence(words, keep) ==
    LET f[i \in 0..Len(words)] ==
            IF i = 0 THEN << >>
            ELSE IF i \in keep THEN Append(f[i - 1], words[i])
            ELSE f[i - 1]
    IN  f[Len(words)]

\* C17 as stated: _tokenize drops a filler only when it is the very first
\* word of the text and keeps a filler at every later position, a second
\* leading filler included; connectors and numbers are dropped everywhere.
C17_OnlyFirstFillerDropped ==
    Tokenized =>
        reply.tokens = Subsequence(TextWords,
            { i \in DOMAIN TextWords :
                /\ ~Connector(TextWords[i])
                /\ ~IsDigitStr(TextWords[i])
                /\ ~(i = 1 /\ Filler(TextWords[i])) })

\* C17 amended: _tokenize drops every filler that comes before the first
\* kept word (all the leading fillers, also behind connectors and numbers)
\* and keeps a filler after a kept word; connectors and numbers are dropped
\* everywhere.
C17_LeadingFillersDropped ==
    Tokenized =>
        reply.tokens = Subsequence(TextWords,
            { i \in DOMAIN TextWords :
                /\ ~Connector(TextWords[i])
                /\ ~IsDigitStr(TextWords[i])
                /\ Filler(TextWords[i]) =>
                       \E j \in 1..(i - 1) : /\ ~Connector(TextWords[j])
                                             /\ ~IsDigitStr(TextWords[j])
                                             /\ ~Filler(TextWords[j]) })

\* C17 witness: two fillers then a name, and only the name is returned
C17_Witness ==
    /\ Tokenized
    /\ Len(TextWords) = 3
    /\ Filler(TextWords[1])
    /\ Filler(TextWords[2])
    /\ ~Filler(TextWords[3])
    /\ reply.tokens = << TextWords[3] >>

Extracted == call.op = "_extract_players_from_text" /\ reply # NoReply

\* the words of an extracted name
NameWords(name) == Runs(name, Tail(CodeOrder), "")

VersusWords == SelectSeq(Runs(call.text, Tail(CodeOrder), ""), LAMBDA w : ~IsDigitStr(w))

\* the position of the connector among them
ConnectorAt == CHOOSE c \in DOMAIN VersusWords : Lower(VersusWords[c]) \in { "vs", "vs.", "versus", "contro" }

BreakWord(w) == Lower(w) \in _BREAK_TOKENS

ServeRow(row, w, l) ==
    LET names == << "svpt", "1stIn", "1stWon", "2ndWon", "bpSaved", "bpFaced" >>
        value(i) ==
            IF \E k \in DOMAIN names : MatchColumns[i] = "w_" \o names[k]
            THEN (IF w = << >> THEN None
                  ELSE Some(w[CHOOSE k \in DOMAIN names : MatchColumns[i] = "w_" \o names[k]]))
            ELSE IF \E k \in DOMAIN names : MatchColumns[i] = "l_" \o names[k]
            THEN (IF l = << >> THEN None
                  ELSE Some(l[CHOOSE k \in DOMAIN names : MatchColumns[i] = "l_" \o names[k]]))
            ELSE row[i]
    IN  [ i \in DOMAIN row |-> value(i) ]

\* matches the table may hold: full serve figures, a loser who never missed
\* a first serve and faced no break point, a match without figures, and a
\* match with an empty tournament name and no surface or date
StatsMatchPool ==
    << ServeRow(MatchRow(1, Some("Rome"), Some("20220509"), Some(1), "p1", "p2", Some("6-4 6-3"), Some("F")),
                << 6, 4, 3, 1, 1, 2 >>, << 5, 5, 3, 0, 0, 0 >>),
       ServeRow(WithColumn(MatchRow(2, Some("Wimbledon"), Some("20230703"), Some(2), "p2", "p1",
                                    Some("7-5 6-4"), Some("SF")), "surface", Some("Grass")),
                << >>, << >>),
       ServeRow(WithColumn(MatchRow(3, Some(""), None, None, "p1", "p2", None, None), "surface", None),
                << 0, 0, 0, 0, 0, 0 >>, << 4, 2, 1, 1, 1, 1 >>),
       ServeRow(MatchRow(4, Some("Rome"), Some("20230508"), Some(3), "p2", "p3", Some("6-1 6-1"), Some("R32")),
                << 3, 3, 3, 0, 0, 0 >>, << 3, 1, 0, 1, 0, 2 >>) >>

StatsTables ==
    UNION { { [ i \in 1..k |-> StatsMatchPool[f[i]] ] :
                f \in { g \in [ 1..k -> DOMAIN StatsMatchPool ] : \A a, b \in 1..k : a < b => g[a] < g[b] } } :
            k \in 0..MaxMatches }

StatsInit ==
    /\ call \in { [ op |-> "player_stats", matches |-> m, player_id |-> p, year_filter |-> y, surface_filter |-> s ] :
                    m \in StatsTables, p \in { "p1", "p2", "p3" }, y \in { None, Some("2022"), Some("2023") },
                    s \in { None, Some("Clay") } }
    /\ reply = NoReply
    /\ SigIdle
    /\ CtxIdle
    /\ BotIdle

\* ActionPlayerStats.run from the match query to the statistics
Aggregate ==
    /\ call.op = "player_stats"
    /\ reply = NoReply
    /\ LET computed(match_rows) ==
               [ done |-> TRUE, match_rows |-> match_rows,
                 stats |-> PlayerStatistics(match_rows, call.player_id, call.year_filter) ]
       IN  reply' = computed(deduplicate_matches(Project(
                        OrderByDateDesc(SelectSeq(call.matches, LAMBDA row :
                            /\ Played(row, call.player_id)
                            /\ FilterClauses(row, call.year_filter, call.surface_filter, None))),
                        StatsColumns \o ServeColumns)))
    /\ UNCHANGED << call, sigVars, ctxVars, botVars >>

StatsNext == Aggregate

SpecStats == StatsInit /\ [][StatsNext]_vars

Aggregated == call.op = "player_stats" /\ reply # NoReply

\* the sum over the match rows of the player's own figure: column w where
\* the player won, column l where the player lost, NULL counting 0
OwnTotal(w, l) ==
    LET f[i \in 0..Len(reply.match_rows)] ==
            IF i = 0 THEN 0
            ELSE f[i - 1] + (LET v == Get(reply.match_rows[i],
                                          IF Get(reply.match_rows[i], "winner_id") = Some(call.player_id)
                                          THEN w ELSE l)
                             IN  IF v = None THEN 0 ELSE v[1])
    IN  f[Len(reply.match_rows)]

\* C19: in the player-stats action wins + losses = total, the win rate lies
\* between 0 and 100, no division has a zero denominator, a percentage with
\* a zero denominator is reported as 0, and an empty match list leads to no
\* division at all.
C19_StatisticsGuards ==
    Aggregated =>
        /\ reply.stats.total = Len(reply.match_rows)
        /\ reply.stats.wins + reply.stats.losses = reply.stats.total
        /\ \A i \in DOMAIN reply.stats.divisions : reply.stats.divisions[i].den # 0
        /\ reply.match_rows = << >> => reply.stats.divisions = << >>
        /\ reply.match_rows # << >> =>
               /\ reply.stats.win_rate.den > 0
               /\ 0 <= reply.stats.win_rate.num
               /\ reply.stats.win_rate.num <= 100 * reply.stats.win_rate.den
               /\ OwnTotal("w_svpt", "l_svpt") = 0 => reply.stats.first_in_pct.num = 0
               /\ OwnTotal("w_1stIn", "l_1stIn") = 0 => reply.stats.first_won_pct.num = 0
               /\ OwnTotal("w_svpt", "l_svpt") = OwnTotal("w_1stIn", "l_1stIn") =>
                      reply.stats.second_won_pct.num = 0
               /\ OwnTotal("w_bpFaced", "l_bpFaced") = 0 => reply.stats.bp_saved_pct.num = 0
               /\ \A r \in reply.stats.rates : r.rate.den > 0 /\ r.rate.num <= 100 * r.rate.den

\* C19 witness: statistics over two matches in which the player faced no
\* break point and every serve was a first serve in
C19_Witness ==
    /\ Aggregated
    /\ Len(reply.match_rows) = 2
    /\ OwnTotal("w_bpFaced", "l_bpFaced") = 0
    /\ OwnTotal("w_svpt", "l_svpt") = OwnTotal("w_1stIn", "l_1stIn")
    /\ OwnTotal("w_svpt", "l_svpt") > 0
    /\ reply.stats.bp_saved_pct.num = 0
    /\ reply.stats.second_won_pct.num = 0
    /\ reply.stats.divisions # << >>

\* ------------------------------------------------------------------------
\* Specification of the breakdowns over many seasons

\* the seasons a table may span
MaxSeasons == 7

SeasonTournaments == << "Rome", "Wimbledon", "Paris", "Madrid", "Miami", "Doha", "Basel", "Turin" >>

SeasonSurfaces == << Some("Clay"), Some("Grass"), Some(" Hard "), None >>

\* the match of season i: played in year 2016 + i, each season at another
\* tournament, won by p1 in odd seasons; season 0 is a match without a date
SeasonRow(i) ==
    WithColumn(MatchRow(i + 1, Some(SeasonTournaments[(i % Len(SeasonTournaments)) + 1]),
                        IF i = 0 THEN None ELSE Some(ToString(2016 + i) \o "0509"), Some(1),
                        IF i % 2 = 1 THEN "p1" ELSE "p2", IF i % 2 = 1 THEN "p2" ELSE "p1",
                        Some("6-4 6-3"), Some("F")),
               "surface", SeasonSurfaces[(i % Len(SeasonSurfaces)) + 1])

\* tables holding the matches of any set of seasons
SeasonTables ==
    { LET RECURSIVE from(_)
          from(i) == IF i > MaxSeasons THEN << >>
                     ELSE (IF i \in seasons THEN << SeasonRow(i) >> ELSE << >>) \o from(i + 1)
      IN  from(0) : seasons \in SUBSET (0..MaxSeasons) }

BreakdownInit ==
    /\ call \in { [ op |-> "player_stats", matches |-> m, player_id |-> "p1", year_filter |-> y,
                    surface_filter |-> None ] :
                    m \in SeasonTables, y \in { None, Some("2019") } }
    /\ reply = NoReply
    /\ SigIdle
    /\ CtxIdle
    /\ BotIdle

SpecBreakdown == BreakdownInit /\ [][StatsNext]_vars

RECURSIVE Tally(_, _)
\* the sum of a field over the entries of a breakdown
Tally(entries, field) ==
    IF entries = {} THEN 0
    ELSE LET e == CHOOSE x \in entries : TRUE
         IN  e[field] + Tally(entries \ { e }, field)

\* the years of the analysed matches: the first four characters of the
\* date when they are digits
SeasonsPlayed ==
    { SubSeq(OrEmpty(Get(reply.match_rows[i], "tourney_date")), 1, 4) :
        i \in { j \in DOMAIN reply.match_rows :
                  /\ Len(OrEmpty(Get(reply.match_rows[j], "tourney_date"))) >= 4
                  /\ IsDigitStr(SubSeq(OrEmpty(Get(reply.match_rows[j], "tourney_date")), 1, 4)) } }

\* C28: breakdowns partition the analysed matches in the player-stats
\* action. The per-surface match counts sum to the total and the
\* per-surface wins to the wins, and so do the per-tournament tallies
\* before the top-5 cut; the per-year breakdown is empty whenever a year
\* filter is active and otherwise shows the most recent years of the
\* analysed matches, at most 5.
C28_BreakdownsPartition ==
    (Aggregated /\ ~reply.stats.early) =>
        /\ Tally(reply.stats.surface_stats, "matches") = reply.stats.total
        /\ Tally(reply.stats.surface_stats, "wins") = reply.stats.wins
        /\ Tally(reply.stats.tournament_stats, "matches") = reply.stats.total
        /\ Tally(reply.stats.tournament_stats, "wins") = reply.stats.wins
        /\ Truthy(call.year_filter) => reply.stats.years_shown = {}
        /\ ~Truthy(call.year_filter) =>
              LET shown == { e.key : e \in reply.stats.years_shown }
              IN  /\ Cardinality(reply.stats.years_shown) = Cardinality(shown)
                  /\ Cardinality(shown) <= 5
                  /\ shown \subseteq SeasonsPlayed
                  /\ Cardinality(shown) < 5 => shown = SeasonsPlayed
                  /\ \A y \in SeasonsPlayed \ shown : \A s \in shown : StrLess(y, s)
                  /\ \A e \in reply.stats.years_shown :
                        e.matches = Cardinality({ i \in DOMAIN reply.match_rows :
                                        StartsWith(OrEmpty(Get(reply.match_rows[i], "tourney_date")), e.key) })

\* C28 witness: statistics without a year filter over matches of seven
\* seasons at seven tournaments, one match without a date: five years are
\* shown and the tallies cover more than five tournaments.
C28_Witness ==
    /\ Aggregated
    /\ ~Truthy(call.year_filter)
    /\ reply.stats.total = 8
    /\ Cardinality(SeasonsPlayed) = 7
    /\ Cardinality(reply.stats.years_shown) = 5
    /\ Cardinality(reply.stats.tournament_stats) = 8
    /\ Cardinality(reply.stats.surface_stats) = 4
    /\ reply.stats.wins = 4

\* ------------------------------------------------------------------------
\* Specification of one run of an action against a store that may fail

InfoMessages ==
    { Message("player_info", "chi e Sinner?", << >>),
      Message("player_info", "info su Alcaraz", << PlayerEntity("Alcaraz") >>),
      Message("player_info", "who is Nadal", << >>),
      Message("player_info", "info", << >>) }

\* slot memories left by earlier turns
OutageSlots ==
    { EmptySlots,
      [ EmptySlots EXCEPT !["player_name"] = Some("Jannik Sinner"), !["year"] = Some("2022") ],
      [ EmptySlots EXCEPT !["player1"] = Some("Jannik Sinner"), !["player2"] = Some("Carlos Alcaraz"),
                          !["surface"] = Some("Clay") ] }

OutageInit ==
    /\ call \in { [ op |-> "run",
                    action  |-> IF MessageIntent(m) = "player_info" THEN "action_player_info"
                                ELSE IntentAction(MessageIntent(m)),
                    tracker |-> [ latest_message |-> m, slots |-> s, events |-> << [ event |-> "user" ] >> ] ] :
                    m \in { u \in UserMessages : MessageIntent(u) # "inform_filters" } \cup InfoMessages,
                    s \in OutageSlots }
    /\ reply = NoReply
    /\ SigIdle
    /\ CtxIdle
    /\ BotIdle

\* run(dispatcher, tracker, domain) of the action, with the store call that
\* fails, if any, chosen by the environment
RunWithStore(name, outcomes) ==
    /\ call.op = "run"
    /\ call.action = name
    /\ reply = NoReply
    /\ \E fails \in { "", "connect", "query" } : \E outcome \in outcomes :
           LET returns(r) == [ done |-> TRUE, fails |-> fails, failed |-> r.failed, raised |-> r.raised,
                               attempts |-> r.attempts, opened |-> r.opened, closed |-> r.closed,
                               run |-> r.run ]
           IN  reply' = returns(OnStoreError(outcome, fails))
    /\ UNCHANGED << call, sigVars, ctxVars, botVars >>

OutageNext ==
    \/ RunWithStore("action_player_info", ActionPlayerInfo_run(call.tracker, Players, StoredMatches))
    \/ RunWithStore("action_player_stats", ActionPlayerStats_run(call.tracker, Players, StoredMatches))
    \/ RunWithStore("action_head_to_head", ActionHeadToHead_run(call.tracker, Players, StoredMatches))
    \/ RunWithStore("action_tournament_info", ActionTournamentInfo_run(call.tracker, StoredMatches))
    \/ RunWithStore("action_match_result", ActionMatchResult_run(call.tracker, Players, StoredMatches))
    \/ RunWithStore("action_ongoing_tournaments", ActionOngoingTournaments_run(StoredMatches))

SpecOutage == OutageInit /\ [][OutageNext]_vars

AbsentMessages ==
    { None,
      Message("", "", << >>),
      Message("player_info", "chi e Sinner?", << >>),
      Message("player_stats", "statistiche", << >>),
      Message("inform_filters", "su erba", << Entity("surface", Some("erba")) >>) }

\* the tracker of a call: the message is absent, or no slot holds a value
AbsentTrackers ==
    { k \in [ latest_message : AbsentMessages, slots : OutageSlots, events : { << >> } ] :
        k.latest_message = None \/ k.slots = EmptySlots }

AbsentOps ==
    { "build_filter_context", "action_player_info", "action_player_stats", "action_head_to_head",
      "action_tournament_info", "action_match_result", "action_ongoing_tournaments",
      "action_apply_filters" }

AbsentInit ==
    /\ call \in { [ op |-> o, tracker |-> k ] : o \in AbsentOps, k \in AbsentTrackers }
    /\ reply = NoReply
    /\ SigIdle
    /\ CtxIdle
    /\ BotIdle

\* build_filter_context(tracker)
BuildContext ==
    /\ call.op = "build_filter_context"
    /\ reply = NoReply
    /\ reply' = [ done |-> TRUE, ctx |-> build_filter_context(call.tracker) ]
    /\ UNCHANGED << call, sigVars, ctxVars, botVars >>

\* run(dispatcher, tracker, domain) of the action on the working store
RunOnce(name, outcomes) ==
    /\ call.op = name
    /\ reply = NoReply
    /\ \E outcome \in outcomes : reply' = [ done |-> TRUE, run |-> outcome ]
    /\ UNCHANGED << call, sigVars, ctxVars, botVars >>

AbsentNext ==
    \/ BuildContext
    \/ RunOnce("action_player_info", ActionPlayerInfo_run(call.tracker, Players, StoredMatches))
    \/ RunOnce("action_player_stats", ActionPlayerStats_run(call.tracker, Players, StoredMatches))
    \/ RunOnce("action_head_to_head", ActionHeadToHead_run(call.tracker, Players, StoredMatches))
    \/ RunOnce("action_tournament_info", ActionTournamentInfo_run(call.tracker, StoredMatches))
    \/ RunOnce("action_match_result", ActionMatchResult_run(call.tracker, Players, StoredMatches))
    \/ RunOnce("action_ongoing_tournaments", ActionOngoingTournaments_run(StoredMatches))
    \/ RunOnce("action_apply_filters", ActionApplyFilters_run(call.tracker))

SpecAbsent == AbsentInit /\ [][AbsentNext]_vars

\* C22: totality on absent input. build_filter_context given an absent
\* message and empty slots returns a context whose effective year, surface
\* and tournament are absent and whose explicit flags are false; and every
\* action run with an absent message or with empty slots does not raise
\* and ends the turn with a message.
C22_TotalOnAbsentInput ==
    reply # NoReply =>
        /\ ( /\ call.op = "build_filter_context"
             /\ call.tracker.latest_message = None
             /\ call.tracker.slots = EmptySlots ) =>
                /\ reply.ctx.year = None /\ reply.ctx.surface = None /\ reply.ctx.tournament = None
                /\ ~reply.ctx.explicit_year /\ ~reply.ctx.explicit_surface
                /\ ~reply.ctx.explicit_tournament
        /\ call.op # "build_filter_context" =>
                /\ reply.run.kind # "raised"
                /\ reply.run.messages # << >>

(***************************************************************************)
(* Specification of the flows that deduplicate their match rows            *)
(***************************************************************************)
\* the same final stored with match number 1, 2 and NULL, and another match
FlowMatchPool ==
    { MatchRow(0, Some("Rome"), Some("20220509"), Some(1), "p1", "p2", Some("6-4 6-3"), Some("F")),
      MatchRow(0, Some("Rome"), Some("20220509"), Some(2), "p1", "p2", Some("6-4 6-3"), Some("F")),
      MatchRow(0, Some("Rome"), Some("20220509"), None, "p1", "p2", Some("6-4 6-3"), Some("F")),
      MatchRow(0, Some("Wimbledon"), Some("20230703"), Some(1), "p2", "p1", Some("7-5 6-4"), Some("SF")) }

\* tables matches of up to MaxMatches rows, match_id in insertion order; a
\* row of the pool taken twice is a match loaded twice
FlowMatches ==
    UNION { { [ i \in 1..n |-> WithColumn(t[i], "match_id", Some(i)) ] : t \in [1..n -> FlowMatchPool] } :
            n \in 1..MaxMatches }

\* the question that starts each flow
FlowMessages ==
    [ action_player_stats |-> Message("player_stats", "statistiche di Sinner", << PlayerEntity("Sinner") >>),
      action_head_to_head |-> Message("head_to_head", "Sinner contro Alcaraz",
                                      << PlayerEntity("Sinner"), PlayerEntity("Alcaraz") >>),
      action_match_result |-> Message("match_result", "Sinner vs Alcaraz", << >>) ]

FlowInit ==
    /\ call \in { [ op |-> o, matches |-> m,
                    tracker |-> [ latest_message |-> FlowMessages[o], slots |-> EmptySlots,
                                  events |-> << [ event |-> "user" ] >> ] ] :
                    o \in DOMAIN FlowMessages, m \in FlowMatches }
    /\ reply = NoReply
    /\ SigIdle
    /\ CtxIdle
    /\ BotIdle

FlowNext ==
    \/ RunOnce("action_player_stats", ActionPlayerStats_run(call.tracker, Players, call.matches))
    \/ RunOnce("action_head_to_head", ActionHeadToHead_run(call.tracker, Players, call.matches))
    \/ RunOnce("action_match_result", ActionMatchResult_run(call.tracker, Players, call.matches))

SpecFlows == FlowInit /\ [][FlowNext]_vars

\* two stored rows agree on date, tournament, round, participants and score
SameButNumber(a, b) ==
    /\ \A c \in { "tourney_date", "tourney_name", "round", "score" } : Col(a, c) = Col(b, c)
    /\ { Col(a, "winner_id"), Col(a, "loser_id") } = { Col(b, "winner_id"), Col(b, "loser_id") }
    /\ Col(a, "match_num") # Col(b, "match_num")

\* the match_id of the rows a run counted or listed
ShownIds == { Get(reply.run.shown[i], "match_id") : i \in DOMAIN reply.run.shown }

\* the stored row, or a copy of it under another match_id, is among the
\* rows the run counted or listed
Survives(row) ==
    \E k \in DOMAIN call.matches :
        /\ WithColumn(call.matches[k], "match_id", None) = WithColumn(row, "match_id", None)
        /\ Col(call.matches[k], "match_id") \in ShownIds

\* C23: match number is part of the identity used for deduplication in
\* every flow. Two stored rows that agree on date, tournament, round,
\* participants and score and differ in match number have different
\* signatures, and both (or a copy of each) are among the rows the
\* player-stats, head-to-head and match-result flows analyse.
C23_MatchNumberInIdentity ==
    reply # NoReply =>
        \A i, j \in DOMAIN call.matches :
            SameButNumber(call.matches[i], call.matches[j]) =>
                /\ SignatureFromTuple(call.matches[i]) # SignatureFromTuple(call.matches[j])
                /\ Survives(call.matches[i])
                /\ Survives(call.matches[j])

(***************************************************************************)
(* Specification of one run of an action after a given event history       *)
(***************************************************************************)
ActionEvent(name) == [ event |-> "action", name |-> name ]

\* event histories: the action is the first to run after the message, runs
\* after the router, or runs once more after the router and itself
RepeatHistories ==
    { << [ event |-> "user" ] >>,
      << [ event |-> "user" ], ActionEvent("action_apply_filters") >>,
      << [ event |-> "user" ], ActionEvent("action_apply_filters"), ActionEvent("action_player_stats") >>,
      << [ event |-> "user" ], ActionEvent("action_player_stats"), [ event |-> "user" ],
         ActionEvent("action_apply_filters") >> }

RepeatMessages ==
    { Message("inform_filters", "su erba", << Entity("surface", Some("erba")) >>),
      Message("inform_filters", "nel 2022", << Entity("year", Some("2022")) >>),
      Message("inform_filters", "Alcaraz nel 2022", << PlayerEntity("Alcaraz"), Entity("year", Some("2022")) >>),
      Message("inform_filters", "al torneo", << Entity("tournament", Some("")) >>),
      Message("player_stats", "statistiche", << >>),
      Message("player_stats", "Sinner al torneo", << PlayerEntity("Sinner"), Entity("tournament", Some("")) >>),
      Message("head_to_head", "Sinner contro Alcaraz sulla terra",
              << PlayerEntity("Sinner"), PlayerEntity("Alcaraz"), Entity("surface", Some("terra")) >>) }

\* slot memories left by earlier turns, among them answers under a filter
RepeatSlots ==
    OutageSlots \cup
    { [ EmptySlots EXCEPT !["player_name"] = Some("Jannik Sinner"),
                          ![LAST_CONTEXT_SLOT] = Some("action_player_stats") ],
      [ EmptySlots EXCEPT !["player_name"] = Some("Jannik Sinner"), !["tournament_name"] = Some("Rome"),
                          ![LAST_CONTEXT_SLOT] = Some("action_player_stats") ],
      [ EmptySlots EXCEPT !["player1"] = Some("Jannik Sinner"), !["player2"] = Some("Carlos Alcaraz"),
                          !["tournament_name"] = Some("Rome"), !["year"] = Some("2022"),
                          ![LAST_CONTEXT_SLOT] = Some("action_head_to_head") ] }

RepeatActions ==
    { "action_player_info", "action_player_stats", "action_head_to_head", "action_tournament_info",
      "action_match_result", "action_ongoing_tournaments", "action_apply_filters" }

RepeatInit ==
    /\ call \in { [ op |-> o, tracker |-> k ] :
                    o \in RepeatActions,
                    k \in [ latest_message : RepeatMessages, slots : RepeatSlots, events : RepeatHistories ] }
    /\ reply = NoReply
    /\ SigIdle
    /\ CtxIdle
    /\ BotIdle

RepeatNext ==
    \/ RunOnce("action_player_info", ActionPlayerInfo_run(call.tracker, Players, StoredMatches))
    \/ RunOnce("action_player_stats", ActionPlayerStats_run(call.tracker, Players, StoredMatches))
    \/ RunOnce("action_head_to_head", ActionHeadToHead_run(call.tracker, Players, StoredMatches))
    \/ RunOnce("action_tournament_info", ActionTournamentInfo_run(call.tracker, StoredMatches))
    \/ RunOnce("action_match_result", ActionMatchResult_run(call.tracker, Players, StoredMatches))
    \/ RunOnce("action_ongoing_tournaments", ActionOngoingTournaments_run(StoredMatches))
    \/ RunOnce("action_apply_filters", ActionApplyFilters_run(call.tracker))

SpecRepeat == RepeatInit /\ [][RepeatNext]_vars

\* the history shows a run of the action after the latest user message
RanSinceUser(events, name) ==
    \E i \in DOMAIN events :
        /\ events[i] = ActionEvent(name)
        /\ \A j \in i..Len(events) : events[j].event # "user"

\* C25: every turn terminates after at most one re-dispatch. No action
\* but action_apply_filters returns a follow-up to an action other than
\* action_listen, and none returns one to action_apply_filters; and
\* action_player_stats, run for an informing-filters message without
\* player entities when it has already run after the latest user message,
\* utters nothing and returns only the continue-listening signal.
C25_OneRedispatchPerTurn ==
    reply # NoReply =>
        /\ \A i \in DOMAIN reply.run.events :
              reply.run.events[i].event = "followup" =>
                  /\ reply.run.events[i].name # "action_apply_filters"
                  /\ call.op # "action_apply_filters" => reply.run.events[i].name = "action_listen"
        /\ ( /\ call.op = "action_player_stats"
             /\ MessageIntent(call.tracker.latest_message) = "inform_filters"
             /\ EntityValues(MessageEntities(call.tracker.latest_message), "player") = << >>
             /\ RanSinceUser(call.tracker.events, "action_player_stats") ) =>
                /\ reply.run.messages = << >>
                /\ reply.run.events = << FollowupAction("action_listen") >>

\* C26: memory matches what was queried. Whenever action_player_stats or
\* action_head_to_head answers with at least one match, the year, surface
\* and tournament slots, once the returned slot events are applied, hold
\* the year, surface and tournament filters the query of that run used,
\* for the informing-filters intent and for any other, whether the message
\* gives a value, none or an empty one.
C26_MemoryMatchesQuery ==
    ( /\ reply # NoReply
      /\ call.op \in { "action_player_stats", "action_head_to_head" }
      /\ reply.run.kind = "answer" ) =>
        LET memory == ApplySlotEvents(call.tracker.slots, reply.run.events)
        IN  /\ reply.run.shown # << >>
            /\ Applied(memory["year"]) = reply.run.query.year
            /\ Applied(memory["surface"]) = reply.run.query.surface
            /\ Applied(memory["tournament_name"]) = reply.run.query.tournament

(***************************************************************************)
(* Specification of the update of the ongoing matches (db_create.py)       *)
(***************************************************************************)

\* runs of create_database on an existing database, each of which calls
\* update_ongoing_matches
MaxRuns == 3

\* rows of ongoing_tourneys.csv in one feed
MaxFeed == 2

\* safe_str_convert: None for a missing or blank cell, else the stripped text
safe_str_convert(value) ==
    IF IsNone(value) THEN None
    ELSE IF Strip(value[1]) = "" THEN None
    ELSE Some(Strip(value[1]))

\* safe_int_convert of a numeric cell: None when missing
safe_int_convert(value) == IF IsNone(value) THEN None ELSE Some(value[1])

\* safe_date_convert of a numeric cell: the digits when there are eight of
\* them, else None
safe_date_convert(value) ==
    IF IsNone(value) THEN None
    ELSE LET date_str == ToString(value[1])
         IN  IF Len(date_str) = 8 /\ IsDigitStr(date_str) THEN Some(date_str) ELSE None

\* column = ? in SQL: never true when either side is NULL
SqlEquals(column, param) == ~IsNone(column) /\ ~IsNone(param) /\ column = param

\* (column = ? OR (column IS NULL AND ? IS NULL))
SqlEqualsOrBothNull(column, param) ==
    SqlEquals(column, param) \/ (IsNone(column) /\ IsNone(param))

\* the WHERE clause of the lookup of an existing match: the match number
\* and the round are compared null-safely, the other four columns with =
ExistingMatchWhere(m, winner_id, loser_id, tourney_name, tourney_date, match_num, round_val) ==
    /\ SqlEquals(m.winner_id, winner_id)
    /\ SqlEquals(m.loser_id, loser_id)
    /\ SqlEquals(m.tourney_name, tourney_name)
    /\ SqlEquals(m.tourney_date, tourney_date)
    /\ SqlEqualsOrBothNull(m.match_num, match_num)
    /\ SqlEqualsOrBothNull(m.round, round_val)

\* UPDATE matches SET ongoing = 0 WHERE ongoing = 1
ResetOngoing(table) == [ i \in DOMAIN table |-> [ table[i] EXCEPT !.ongoing = 0 ] ]

\* the next match_id of the AUTOINCREMENT key
NextMatchId(table) ==
    IF table = << >> THEN 1
    ELSE 1 + (CHOOSE n \in { table[i].match_id : i \in DOMAIN table } :
                  \A i \in DOMAIN table : table[i].match_id <= n)

\* one iteration of the loop over the feed, on the state of the run so far:
\* a row without winner or loser is skipped, a Davis Cup row is passed over,
\* a row found in the table is flagged (its score kept when the feed has
\* none), any other row is inserted flagged; the insert of a row without
\* tournament name violates NOT NULL and raises
UpdateRow(st, row) ==
    LET winner_id == safe_str_convert(row.winner_id)
        loser_id == safe_str_convert(row.loser_id)
        tourney_name == safe_str_convert(row.tourney_name)
        tourney_date == safe_date_convert(row.tourney_date)
        match_num == safe_int_convert(row.match_num)
        round_val == safe_str_convert(row.round)
        score == safe_str_convert(row.score)
        found == { i \in DOMAIN st.matches :
                     ExistingMatchWhere(st.matches[i], winner_id, loser_id, tourney_name,
                                        tourney_date, match_num, round_val) }
        existing_match == CHOOSE i \in found : \A j \in found : i <= j
    IN  IF st.raised THEN st
        ELSE IF IsNone(winner_id) \/ IsNone(loser_id)
        THEN [ st EXCEPT !.skipped = @ + 1 ]
        ELSE IF Truthy(tourney_name) /\ Contains(Lower(tourney_name[1]), "Davis Cup") THEN st
        ELSE IF found # {}
        THEN [ st EXCEPT !.matches[existing_match].ongoing = 1,
                         !.matches[existing_match].score = IF IsNone(score) THEN @ ELSE score,
                         !.updated = @ + 1 ]
        ELSE IF IsNone(tourney_name) THEN [ st EXCEPT !.raised = TRUE ]
        ELSE [ st EXCEPT !.matches = Append(@, [ match_id |-> NextMatchId(st.matches),
                                                 winner_id |-> winner_id, loser_id |-> loser_id,
                                                 tourney_name |-> tourney_name,
                                                 tourney_date |-> tourney_date,
                                                 match_num |-> match_num, round |-> round_val,
                                                 score |-> score, ongoing |-> 1 ]),
                         !.added = @ + 1 ]

RECURSIVE UpdateRows(_, _)
\* for _, row in df_ongoing.iterrows()
UpdateRows(st, feed) ==
    IF feed = << >> THEN st ELSE UpdateRows(UpdateRow(st, Head(feed)), Tail(feed))

\* update_ongoing_matches on a table and a downloaded feed: the flags are
\* reset, the feed is walked and the result committed; when an insert
\* raises, commit is not reached and the table stays as it was committed
update_ongoing_matches(table, feed) ==
    LET committed(st) ==
            [ matches |-> IF st.raised THEN table ELSE st.matches, raised |-> st.raised,
              added |-> IF st.raised THEN 0 ELSE st.added, updated |-> st.updated,
              skipped |-> st.skipped ]
    IN  committed(UpdateRows([ matches |-> ResetOngoing(table), raised |-> FALSE, added |-> 0,
                               updated |-> 0, skipped |-> 0 ], feed))

FeedRow(winner_id, loser_id, tourney_name, tourney_date, match_num, round_val, score) ==
    [ winner_id |-> winner_id, loser_id |-> loser_id, tourney_name |-> tourney_name,
      tourney_date |-> tourney_date, match_num |-> match_num, round |-> round_val,
      score |-> score ]

FeedPool ==
    { FeedRow(Some("p1"), Some("p2"), Some("Rome"), Some(20220509), Some(1), Some("F"), Some("6-4 6-3")),
      FeedRow(Some("p1"), Some("p2"), Some("Rome"), Some(20220509), Some(1), Some("F"), None),
      FeedRow(Some("p1"), Some("p2"), Some(" Rome "), Some(20220509), None, None, Some("6-4")),
      FeedRow(Some("p2"), Some("p1"), Some("Paris"), None, Some(3), Some("SF"), Some("7-5 6-4")),
      FeedRow(Some("p2"), Some("p1"), Some("Paris"), Some(202205), Some(3), Some("SF"), None),
      FeedRow(None, Some("p2"), Some("Rome"), Some(20220509), Some(2), Some("F"), None),
      FeedRow(Some("p1"), Some(" "), Some("Rome"), Some(20220509), Some(2), Some("F"), None),
      FeedRow(Some("p1"), Some("p2"), None, Some(20220509), Some(4), Some("QF"), None),
      FeedRow(Some("p1"), Some("p2"), Some("Davis Cup WG"), Some(20220304), Some(1), Some("RR"), None) }

Feeds == UNION { [ 1..n -> FeedPool ] : n \in 0..MaxFeed }

StoredRow(match_id, tourney_name, tourney_date, match_num, round_val, ongoing) ==
    [ match_id |-> match_id, winner_id |-> Some("p1"), loser_id |-> Some("p2"),
      tourney_name |-> Some(tourney_name), tourney_date |-> Some(tourney_date),
      match_num |-> match_num, round |-> round_val, score |-> Some("6-4 6-3"),
      ongoing |-> ongoing ]

\* the matches table before the first run: empty, or the historical rows
\* (no two of them the same match), one of them left flagged by an
\* earlier feed
StoredTables ==
    { << >>,
      << StoredRow(1, "Rome", "20220509", Some(1), Some("F"), 0) >>,
      << StoredRow(1, "Rome", "20220509", None, None, 0),
         StoredRow(2, "Wimbledon", "20210628", Some(1), Some("F"), 1) >> }

UpdateInit ==
    /\ call \in { [ op |-> "update_ongoing_matches", matches |-> m, feed |-> f ] :
                    m \in StoredTables, f \in Feeds }
    /\ reply = [ done |-> FALSE, runs |-> 0, matches |-> call.matches, raised |-> FALSE, added |-> 0 ]
    /\ SigIdle
    /\ CtxIdle
    /\ BotIdle

\* one run of update_ongoing_matches with the feed downloaded
UpdateOngoing ==
    /\ call.op = "update_ongoing_matches"
    /\ reply.runs < MaxRuns
    /\ LET returns(r) == [ done |-> TRUE, runs |-> reply.runs + 1, matches |-> r.matches,
                           raised |-> r.raised, added |-> r.added ]
       IN  reply' = returns(update_ongoing_matches(reply.matches, call.feed))
    /\ UNCHANGED << call, sigVars, ctxVars, botVars >>

UpdateNext == UpdateOngoing

SpecUpdate == UpdateInit /\ [][UpdateNext]_vars

\* the feed rows with a winner and a loser
ValidFeedRows ==
    { i \in DOMAIN call.feed :
        ~IsNone(safe_str_convert(call.feed[i].winner_id)) /\ ~IsNone(safe_str_convert(call.feed[i].loser_id)) }

\* the stored row is the match of the feed row: winner, loser, tournament
\* name, date, match number and round agree, null agreeing with null
IsFeedMatch(m, row) ==
    /\ m.winner_id = safe_str_convert(row.winner_id)
    /\ m.loser_id = safe_str_convert(row.loser_id)
    /\ m.tourney_name = safe_str_convert(row.tourney_name)
    /\ m.tourney_date = safe_date_convert(row.tourney_date)
    /\ m.match_num = safe_int_convert(row.match_num)
    /\ m.round = safe_str_convert(row.round)

\* C30: update_ongoing_matches is idempotent for a fixed feed. After any
\* number of runs with the same feed, the matches table holds exactly one
\* row per valid feed match (identified by winner, loser, tournament name,
\* date, match number and round, any of which may be null), the rows
\* flagged ongoing are exactly those feed matches, and a run after the
\* first inserts no new row.
C30_UpdateIdempotent ==
    (call.op = "update_ongoing_matches" /\ reply.runs >= 1) =>
        /\ \A i \in ValidFeedRows :
              Cardinality({ k \in DOMAIN reply.matches :
                              IsFeedMatch(reply.matches[k], call.feed[i]) }) = 1
        /\ \A k \in DOMAIN reply.matches :
              reply.matches[k].ongoing = 1 <=>
                  \E i \in ValidFeedRows : IsFeedMatch(reply.matches[k], call.feed[i])
        /\ reply.runs >= 2 => reply.added = 0

====
